---------------------------- MODULE Spec2Model ----------------------------
(***************************************************************************)
(* Registrar helpdesk: the chatbot message router of                       *)
(* backend/routes/chatbot.js (POST /api/chatbot/message) over the ticket   *)
(* store.  JavaScript strings are TLA+ strings; JSON values that may be    *)
(* of any type are tagged records.                                         *)
(***************************************************************************)
EXTENDS Integers, Sequences, FiniteSets, TLC

(***************************************************************************)
(* JavaScript values                                                       *)
(***************************************************************************)
Null == [type |-> "null"]
Undefined == [type |-> "undefined"]
Str(s) == [type |-> "string", str |-> s]
Num(n) == [type |-> "number", num |-> n]
Arr(items) == [type |-> "array", items |-> items]
Bool(b) == [type |-> "boolean", bool |-> b]

\* truthiness of a JSON value, as `a && b` and `a || b` test it
Truthy(v) ==
  CASE v.type = "string" -> v.str # ""
    [] v.type = "number" -> v.num # 0
    [] v.type = "array" -> TRUE
    [] OTHER -> FALSE

Min(a, b) == IF a < b THEN a ELSE b

(***************************************************************************)
(* String.prototype                                                        *)
(***************************************************************************)
UpperAlphabet == "ABCDEFGHIJKLMNOPQRSTUVWXYZ"
LowerAlphabet == "abcdefghijklmnopqrstuvwxyz"
Digits == "0123456789"

CharAt(s, i) == SubSeq(s, i, i)

IndexIn(alphabet, c) ==
  IF \E i \in 1..Len(alphabet) : CharAt(alphabet, i) = c
  THEN CHOOSE i \in 1..Len(alphabet) : CharAt(alphabet, i) = c
  ELSE 0

UpperLetters == {CharAt(UpperAlphabet, i) : i \in 1..26}
LowerLetters == {CharAt(LowerAlphabet, i) : i \in 1..26}
DigitChars == {CharAt(Digits, i) : i \in 1..10}
LowerOf == [c \in UpperLetters |-> CharAt(LowerAlphabet, IndexIn(UpperAlphabet, c))]
UpperOf == [c \in LowerLetters |-> CharAt(UpperAlphabet, IndexIn(LowerAlphabet, c))]

LowerChar(c) == IF c \in UpperLetters THEN LowerOf[c] ELSE c

UpperChar(c) == IF c \in LowerLetters THEN UpperOf[c] ELSE c

RECURSIVE toLowerCase(_)
toLowerCase(s) ==
  LET str == s
      half == Len(str) \div 2
  IN IF Len(str) <= 1 THEN LowerChar(str)
     ELSE toLowerCase(SubSeq(str, 1, half)) \o toLowerCase(SubSeq(str, half + 1, Len(str)))

RECURSIVE toUpperCase(_)
toUpperCase(s) ==
  LET str == s
      half == Len(str) \div 2
  IN IF Len(str) <= 1 THEN UpperChar(str)
     ELSE toUpperCase(SubSeq(str, 1, half)) \o toUpperCase(SubSeq(str, half + 1, Len(str)))

IsSpace(c) == c = " " \/ c = "\t" \/ c = "\n"
IsDigit(c) == c \in DigitChars
IsLetter(c) == c \in LowerLetters \/ c \in UpperLetters

RECURSIVE trimStart(_)
trimStart(s) == IF s # "" /\ IsSpace(Head(s)) THEN trimStart(Tail(s)) ELSE s

RECURSIVE trimEnd(_)
trimEnd(s) ==
  IF s # "" /\ IsSpace(CharAt(s, Len(s))) THEN trimEnd(SubSeq(s, 1, Len(s) - 1)) ELSE s

trim(s) == trimEnd(trimStart(s))

\* s.substring(0, n)
substring0(s, n) == SubSeq(s, 1, Min(n, Len(s)))

\* s.startsWith(k) at 1-based position i
MatchAt(s, i, k) ==
  /\ i >= 1
  /\ i + Len(k) - 1 <= Len(s)
  /\ SubSeq(s, i, i + Len(k) - 1) = k

includes(s, k) ==
  LET str == s
  IN \E i \in 1..(Len(str) - Len(k) + 1) : MatchAt(str, i, k)

\* the elements of a sequence (Array.prototype.some ranges over them)
Range(seq) == {seq[i] : i \in DOMAIN seq}

\* s.split(/\s+/)
RECURSIVE splitWs(_, _, _)
splitWs(s, cur, inGap) ==
  IF s = "" THEN <<cur>>
  ELSE IF IsSpace(Head(s))
       THEN IF inGap THEN splitWs(Tail(s), cur, TRUE)
            ELSE <<cur>> \o splitWs(Tail(s), "", TRUE)
       ELSE splitWs(Tail(s), cur \o Head(s), FALSE)

split(s) == splitWs(s, "", FALSE)

\* parseInt of a string of decimal digits
RECURSIVE parseInt(_)
parseInt(s) ==
  IF s = "" THEN 0
  ELSE 10 * parseInt(SubSeq(s, 1, Len(s) - 1)) + (IndexIn(Digits, CharAt(s, Len(s))) - 1)


SetMin(S) == CHOOSE x \in S : \A y \in S : x <= y

\* the character classes of the regular expressions
InClass(class, c) ==
  CASE class = "\\d" -> IsDigit(c)
    [] class = "\\s" -> IsSpace(c)
    [] class = "[:\\s]" -> c = ":" \/ IsSpace(c)
    [] class = "[A-Z0-9]" -> IsLetter(c) \/ IsDigit(c)
    [] class = "[A-Za-z\\s]" -> IsLetter(c) \/ IsSpace(c)
    [] class = "[\\dA-Z-]" -> IsDigit(c) \/ IsLetter(c) \/ c = "-"
    [] class = "." -> c # "\n"

\* last index of the longest run of characters of a class that starts at i
\* (i - 1 when the character at i is not in the class)
RunEnd(s, i, class) ==
  LET stops == {j \in i..Len(s) : ~InClass(class, CharAt(s, j))}
  IN IF stops = {} THEN Len(s) ELSE SetMin(stops) - 1

NoMatch == [found |-> FALSE, str |-> ""]
Match(str) == [found |-> TRUE, str |-> str]

(***************************************************************************)
(* Static catalogs and keyword tables                                      *)
(***************************************************************************)
greetingPatterns ==
  << <<"hi", "hello", "hey", "greetings", "good morning", "good afternoon",
       "good evening", "good day">>,
     <<"hi there", "hello there", "hey there">> >>

ticketKeywords ==
  << [category |-> "OTR Request",
      keywords |-> <<"otr", "transcript", "official transcript", "records", "tor">>],
     [category |-> "Subject Enrollment",
      keywords |-> <<"enroll", "enrollment", "add subject", "register subject",
                     "drop subject", "withdraw subject">>],
     [category |-> "Grade Inquiry",
      keywords |-> <<"grade", "grades", "check grade", "view grade",
                     "question about grade">>],
     [category |-> "Document Request",
      keywords |-> <<"document", "certificate", "diploma", "coe",
                     "certificate of enrollment">>],
     [category |-> "Enrollment",
      keywords |-> <<"enrollment", "enroll", "change course", "shift course">>],
     [category |-> "Scholarship",
      keywords |-> <<"scholarship", "financial aid", "grant">>],
     [category |-> "Financial Aid",
      keywords |-> <<"financial aid", "assistance", "help with payment">>],
     [category |-> "Tuition Payment",
      keywords |-> <<"tuition", "payment", "pay", "fee">>],
     [category |-> "Academic Complaint",
      keywords |-> <<"complaint", "grievance", "issue", "problem">>],
     [category |-> "General Inquiry",
      keywords |-> <<"inquiry", "question", "help", "information">>] >>

(***************************************************************************)
(* Classifiers                                                             *)
(***************************************************************************)
\* /^(a|b|...)/i tested against an already lower-cased string
TestPrefixPattern(pattern, s) == \E p \in Range(pattern) : MatchAt(s, 1, p)

\* a variant of detectGreeting that accepts only a bare greeting
detectGreeting_exact(message) ==
  LET lowerMessage == trim(toLowerCase(message))
  IN \E pattern \in Range(greetingPatterns) : lowerMessage \in Range(pattern)

detectGreeting(message) ==
  LET lowerMessage == trim(toLowerCase(message))
  IN \E pattern \in Range(greetingPatterns) : TestPrefixPattern(pattern, lowerMessage)

\* hour is new Date().getHours()
getGreetingResponse(hour) ==
  LET greeting == IF hour < 12 THEN "Good morning"
                  ELSE IF hour < 18 THEN "Good afternoon"
                  ELSE "Good evening"
  IN greeting \o "! I'm the Registrar's Office AI assistant. How can I help you today?"

faqMatches(faq, lowerMessage) ==
  LET keywordMatch ==
        \E keyword \in Range(faq.keywords) : includes(lowerMessage, toLowerCase(keyword))
      questionWords == split(toLowerCase(faq.question))
      questionMatch ==
        \E word \in Range(questionWords) : Len(word) > 3 /\ includes(lowerMessage, word)
  IN keywordMatch \/ questionMatch

\* the answer of the first matching FAQ, or Null
matchFAQ(faqs, message) ==
  LET lowerMessage == toLowerCase(message)
      hits == {i \in DOMAIN faqs : faqMatches(faqs[i], lowerMessage)}
  IN IF hits = {} THEN Null ELSE Str(faqs[SetMin(hits)].answer)

locationKeywords ==
  <<"where", "location", "find", "get", "obtain", "available", "can i get", "how to get">>

deptMatches(dept, lowerMessage) ==
  /\ dept.services.type = "array"
  /\ \E service \in Range(dept.services.items) : includes(lowerMessage, toLowerCase(service))

\* a variant of findDepartmentByService that returns the department with the
\* most matching services
findDepartmentByService_bestMatch(departments, message) ==
  IF Len(departments) = 0 THEN Null
  ELSE
    LET lowerMessage == toLowerCase(message)
        isLocationInquiry == \E keyword \in Range(locationKeywords) : includes(lowerMessage, keyword)
        hits == {i \in DOMAIN departments : deptMatches(departments[i], lowerMessage)}
        score(i) == Cardinality({service \in Range(departments[i].services.items) :
                                   includes(lowerMessage, toLowerCase(service))})
        best == {i \in hits : \A j \in hits : score(j) <= score(i)}
    IN IF ~isLocationInquiry THEN Null
       ELSE IF hits = {} THEN Null
       ELSE departments[SetMin(best)]

\* the first department offering a service the message names, or Null
findDepartmentByService(departments, message) ==
  IF Len(departments) = 0 THEN Null
  ELSE
    LET lowerMessage == toLowerCase(message)
        isLocationInquiry == \E keyword \in Range(locationKeywords) : includes(lowerMessage, keyword)
        hits == {i \in DOMAIN departments : deptMatches(departments[i], lowerMessage)}
    IN IF ~isLocationInquiry THEN Null
       ELSE IF hits = {} THEN Null
       ELSE departments[SetMin(hits)]

formatDepartmentInfo(department) ==
  "You can find that at the " \o department.name \o ". Location: " \o department.location
  \o " Hours: " \o department.hours
  \o (IF department.contact # "" THEN " Email: " \o department.contact ELSE "")
  \o (IF department.phone # "" THEN " Phone: " \o department.phone ELSE "")
  \o " Would you like me to create a ticket for this inquiry, or do you need more information?"

categoryMatches(entry, lowerMessage) ==
  LET matchCount ==
        Cardinality({i \in DOMAIN entry.keywords :
                       includes(lowerMessage, toLowerCase(entry.keywords[i]))})
  IN matchCount > 0

\* a variant of detectTicketCategory that returns the category with the most
\* matching keywords
detectTicketCategory_mostMatches(message) ==
  LET lowerMessage == toLowerCase(message)
      matchCount(i) ==
        Cardinality({k \in DOMAIN ticketKeywords[i].keywords :
                       includes(lowerMessage, toLowerCase(ticketKeywords[i].keywords[k]))})
      best == {i \in DOMAIN ticketKeywords :
                 /\ matchCount(i) > 0
                 /\ \A j \in DOMAIN ticketKeywords : matchCount(j) <= matchCount(i)}
  IN IF best = {} THEN "General Inquiry" ELSE ticketKeywords[SetMin(best)].category

detectTicketCategory(message) ==
  LET lowerMessage == toLowerCase(message)
      hits == {i \in DOMAIN ticketKeywords : categoryMatches(ticketKeywords[i], lowerMessage)}
  IN IF hits = {} THEN "General Inquiry" ELSE ticketKeywords[SetMin(hits)].category

(***************************************************************************)
(* Ticket field extraction                                                 *)
(***************************************************************************)
\* message.match(/(\d+)\s*(copy|copies)/i): group 1 of the leftmost match
copiesMatch(message) ==
  LET lower == toLowerCase(message)
      ok(i) == /\ IsDigit(CharAt(message, i))
               /\ LET j == RunEnd(message, i, "\\d")
                      w == RunEnd(message, j + 1, "\\s")
                  IN MatchAt(lower, w + 1, "copy") \/ MatchAt(lower, w + 1, "copies")
      starts == {i \in 1..Len(message) : ok(i)}
  IN IF starts = {} THEN NoMatch
     ELSE Match(SubSeq(message, SetMin(starts), RunEnd(message, SetMin(starts), "\\d")))

\* [:\s]+(C+?)(?:\.|$) matched from position p: the greedy separator run
\* gives characters back until a lazy capture of class C reaches a "." or
\* the end of the string
LazyCaptureAfter(s, p, class) ==
  LET e == RunEnd(s, p, "[:\\s]")
      stop(q) == SetMin({r \in q..Len(s) : r = Len(s) \/ CharAt(s, r + 1) = "."})
      ok(t) == /\ t + 1 <= Len(s)
               /\ \A x \in (t + 1)..stop(t + 1) : InClass(class, CharAt(s, x))
      good == {t \in p..e : ok(t)}
      t == CHOOSE g \in good : \A h \in good : h <= g
  IN IF good = {} THEN NoMatch ELSE Match(SubSeq(s, t + 1, stop(t + 1)))

\* /(?:k1|k2)[:\s]+(C+?)(?:\.|$)/i: group 1 of the leftmost match
KeyedCapture(message, keys, class) ==
  LET lower == toLowerCase(message)
      after(i) == i + Len(CHOOSE k \in keys : MatchAt(lower, i, k))
      starts == {i \in 1..Len(message) :
                   /\ \E k \in keys : MatchAt(lower, i, k)
                   /\ LazyCaptureAfter(message, after(i), class).found}
  IN IF starts = {} THEN NoMatch
     ELSE LazyCaptureAfter(message, after(SetMin(starts)), class)

\* message.match(/purpose[:\s]+(.+?)(?:\.|$)/i)
purposeMatch(message) == KeyedCapture(message, {"purpose"}, ".")

\* message.match(/(?:subject|course)[:\s]+([A-Za-z\s]+?)(?:\.|$)/i)
subjectNameMatch(message) == KeyedCapture(message, {"subject", "course"}, "[A-Za-z\\s]")

\* message.match(/(?:subject\s+code|code)[:\s]+([A-Z0-9]+)/i): every match
\* ends in a "code" followed by separators and an alphanumeric run, and the
\* leftmost match is the one of the leftmost such "code"
subjectCodeMatch(message) ==
  LET lower == toLowerCase(message)
      sepEnd(i) == RunEnd(message, i + 4, "[:\\s]")
      ok(i) == /\ MatchAt(lower, i, "code")
               /\ sepEnd(i) >= i + 4
               /\ sepEnd(i) + 1 <= Len(message)
               /\ InClass("[A-Z0-9]", CharAt(message, sepEnd(i) + 1))
      starts == {i \in 1..Len(message) : ok(i)}
      c == sepEnd(SetMin(starts)) + 1
  IN IF starts = {} THEN NoMatch
     ELSE Match(SubSeq(message, c, RunEnd(message, c, "[A-Z0-9]")))

NoDetails ==
  [numberOfCopies |-> Undefined, purpose |-> Undefined,
   subjectCode |-> Undefined, subjectName |-> Undefined]

\* a variant of extractPriority that tests the cues of High first
extractPriority_highFirst(message) ==
  LET lowerMessage == toLowerCase(message)
  IN IF includes(lowerMessage, "important") \/ includes(lowerMessage, "soon")
     THEN "High"
     ELSE IF includes(lowerMessage, "urgent") \/ includes(lowerMessage, "asap")
             \/ includes(lowerMessage, "immediately")
     THEN "Urgent"
     ELSE "Normal"

extractPriority(message) ==
  LET lowerMessage == toLowerCase(message)
  IN IF includes(lowerMessage, "urgent") \/ includes(lowerMessage, "asap")
        \/ includes(lowerMessage, "immediately")
     THEN "Urgent"
     ELSE IF includes(lowerMessage, "important") \/ includes(lowerMessage, "soon")
     THEN "High"
     ELSE "Normal"

extractRequestDetails(message, category) ==
  [numberOfCopies |->
     IF category = "OTR Request" /\ copiesMatch(message).found
     THEN Num(parseInt(copiesMatch(message).str)) ELSE Undefined,
   purpose |->
     IF category = "OTR Request" /\ purposeMatch(message).found
     THEN Str(trim(purposeMatch(message).str)) ELSE Undefined,
   subjectCode |->
     IF category = "Subject Enrollment" /\ subjectCodeMatch(message).found
     THEN Str(toUpperCase(subjectCodeMatch(message).str)) ELSE Undefined,
   subjectName |->
     IF category = "Subject Enrollment" /\ subjectNameMatch(message).found
     THEN Str(trim(subjectNameMatch(message).str)) ELSE Undefined]

extractTicketInfo(message, category) ==
  [title |-> substring0(message, 100),
   description |-> message,
   category |-> category,
   priority |-> extractPriority(message),
   requestDetails |-> extractRequestDetails(message, category)]

(***************************************************************************)
(* Completion-service fallback                                             *)
(***************************************************************************)
RECURSIVE deptLines(_)
deptLines(departments) ==
  IF departments = <<>> THEN ""
  ELSE (IF Head(departments).services.type = "array"
        THEN "- " \o Head(departments).name \o ": " \o Head(departments).location \o ". "
        ELSE "")
       \o deptLines(Tail(departments))

buildDepartmentContext(departments) ==
  IF Len(departments) = 0 THEN ""
  ELSE "Available Departments and Services: " \o deptLines(departments)

NoKeyText ==
  "I'm here to help with registrar-related inquiries. Could you please provide more details about your question? You can also create a ticket for assistance."

GptFailText ==
  "I'm having trouble processing that right now. Please try rephrasing your question or create a ticket for assistance."

\* a variant of getGPTResponse that sends the request again when it fails
getGPTResponse_retry(message, departments, openaiApiKey, completion) ==
  IF openaiApiKey = ""
  THEN [text |-> NoKeyText, calls |-> <<>>, failed |-> FALSE]
  ELSE LET request == [system |-> buildDepartmentContext(departments),
                       user |-> message, max_tokens |-> 250]
       IN IF completion.ok
          THEN [text |-> trim(completion.content), calls |-> <<request>>, failed |-> FALSE]
          ELSE [text |-> GptFailText, calls |-> <<request, request>>, failed |-> TRUE]

\* openaiApiKey is process.env.OPENAI_API_KEY ("" when unset); completion is
\* what axios.post does: it rejects, or resolves with a message content.
\* calls lists the outbound requests made, failed is whether one was rejected.
getGPTResponse(message, departments, openaiApiKey, completion) ==
  IF openaiApiKey = ""
  THEN [text |-> NoKeyText, calls |-> <<>>, failed |-> FALSE]
  ELSE LET request == [system |-> buildDepartmentContext(departments),
                       user |-> message, max_tokens |-> 250]
       IN IF completion.ok
          THEN [text |-> trim(completion.content), calls |-> <<request>>, failed |-> FALSE]
          ELSE [text |-> GptFailText, calls |-> <<request>>, failed |-> TRUE]

(***************************************************************************)
(* Ticket status inquiry                                                   *)
(***************************************************************************)
statusKeywords ==
  <<"ticket status", "check ticket", "my tickets", "ticket status",
    "status of", "ticket number", "view ticket", "show ticket",
    "what is my ticket", "where is my ticket", "ticket update",
    "ticket progress", "ticket information", "my ticket info">>

detectTicketStatusInquiry(message) ==
  LET lowerMessage == toLowerCase(message)
  IN \E keyword \in Range(statusKeywords) : includes(lowerMessage, keyword)

\* message.match(/TICKET-[\dA-Z-]+/i): the leftmost match
ticketPatternMatch(message) ==
  LET lower == toLowerCase(message)
      starts == {i \in 1..Len(message) :
                   /\ MatchAt(lower, i, "ticket-")
                   /\ i + 7 <= Len(message)
                   /\ InClass("[\\dA-Z-]", CharAt(message, i + 7))}
      i0 == SetMin(starts)
  IN IF starts = {} THEN NoMatch
     ELSE Match(SubSeq(message, i0, RunEnd(message, i0 + 7, "[\\dA-Z-]")))

\* message.match(/(?:ticket|#)\s*([A-Z0-9-]+)/i): group 1 of the leftmost match
numberPatternMatch(message) ==
  LET lower == toLowerCase(message)
      keyLen(i) == IF MatchAt(lower, i, "ticket") THEN 6
                   ELSE IF MatchAt(lower, i, "#") THEN 1 ELSE 0
      tokenStart(i) == RunEnd(message, i + keyLen(i), "\\s") + 1
      ok(i) == /\ keyLen(i) > 0
               /\ tokenStart(i) <= Len(message)
               /\ InClass("[\\dA-Z-]", CharAt(message, tokenStart(i)))
      starts == {i \in 1..Len(message) : ok(i)}
      c == tokenStart(SetMin(starts))
  IN IF starts = {} THEN NoMatch
     ELSE Match(SubSeq(message, c, RunEnd(message, c, "[\\dA-Z-]")))

\* the ticket number the message mentions (upper-cased), or Null
extractTicketNumber(message) ==
  IF ticketPatternMatch(message).found
  THEN Str(toUpperCase(ticketPatternMatch(message).str))
  ELSE IF numberPatternMatch(message).found
  THEN Str(toUpperCase(numberPatternMatch(message).str))
  ELSE Null

RECURSIVE Reverse(_)
Reverse(seq) == IF seq = <<>> THEN <<>> ELSE Reverse(Tail(seq)) \o <<Head(seq)>>

QueryLimit == 10

\* a variant of getUserTickets that returns the oldest tickets first
getUserTickets_oldestFirst(store, userId, ticketNumber, findOk) ==
  LET inQuery(t) == /\ t.createdBy = userId
                    /\ Truthy(ticketNumber) => t.ticketNumber = ticketNumber.str
      found == SelectSeq(store, inQuery)
  IN IF findOk
     THEN [threw |-> FALSE, tickets |-> SubSeq(found, 1, Min(QueryLimit, Len(found)))]
     ELSE [threw |-> TRUE, tickets |-> <<>>]

\* Ticket.find(query).sort({createdAt: -1}).limit(10) over the store, which
\* is kept in creation order.  findOk is whether the query succeeds.
getUserTickets(store, userId, ticketNumber, findOk) ==
  LET inQuery(t) == /\ t.createdBy = userId
                    /\ Truthy(ticketNumber) => t.ticketNumber = ticketNumber.str
      found == Reverse(SelectSeq(store, inQuery))
  IN IF findOk
     THEN [threw |-> FALSE, tickets |-> SubSeq(found, 1, Min(QueryLimit, Len(found)))]
     ELSE [threw |-> TRUE, tickets |-> <<>>]

RECURSIVE itoa(_)
itoa(n) == IF n < 10 THEN CharAt(Digits, n + 1) ELSE itoa(n \div 10) \o CharAt(Digits, (n % 10) + 1)

\* new Date(createdAt).toLocaleDateString(...); createdAt counts days
formatDate(createdAt, withYear) ==
  "Jan " \o itoa(createdAt) \o (IF withYear THEN ", 2025" ELSE "")

NoTicketsText ==
  "I couldn't find any tickets in your account. Would you like to create a new ticket?"

TruncationNote ==
  "(Showing most recent 10 tickets. View all tickets in the Tickets section.)"

formatTicketDetail(ticket) ==
  "Here's the status of your ticket: Ticket #" \o ticket.ticketNumber
  \o " Title: " \o ticket.title
  \o " Status: " \o ticket.status
  \o " Priority: " \o ticket.priority
  \o " Category: " \o ticket.category
  \o " Created: " \o formatDate(ticket.createdAt, TRUE)
  \o (IF ticket.assignedTo # Null THEN " Assigned to: " \o ticket.assignedTo.username ELSE "")
  \o (IF ticket.status = "Rejected" /\ ticket.resolution # Null
         /\ ticket.resolution.rejectionReason # ""
      THEN " Rejection Reason: " \o ticket.resolution.rejectionReason ELSE "")
  \o (IF ticket.status = "Completed" /\ ticket.resolution # Null
         /\ ticket.resolution.resolutionNotes # ""
      THEN " Resolution: " \o ticket.resolution.resolutionNotes ELSE "")
  \o " You can view full details in the Tickets section."

RECURSIVE formatTicketLines(_, _)
formatTicketLines(tickets, index) ==
  IF tickets = <<>> THEN ""
  ELSE itoa(index) \o ". #" \o Head(tickets).ticketNumber \o " - " \o Head(tickets).title
       \o " Status: " \o Head(tickets).status \o " | Priority: " \o Head(tickets).priority
       \o " | " \o formatDate(Head(tickets).createdAt, FALSE) \o " "
       \o formatTicketLines(Tail(tickets), index + 1)

\* a variant of formatTicketStatus that shows a single ticket in detail
\* whether or not a ticket number was given
formatTicketStatus_detailFirst(tickets, isSpecificTicket) ==
  IF Len(tickets) = 0 THEN NoTicketsText
  ELSE IF Len(tickets) = 1 THEN formatTicketDetail(tickets[1])
  ELSE "I found " \o itoa(Len(tickets)) \o " tickets in your account: "
       \o formatTicketLines(tickets, 1)
       \o (IF Len(tickets) >= 10 THEN TruncationNote ELSE "")
       \o " Would you like to know more about a specific ticket? Just mention the ticket number!"

formatTicketStatus(tickets, isSpecificTicket) ==
  IF Len(tickets) = 0 THEN NoTicketsText
  ELSE IF isSpecificTicket /\ Len(tickets) = 1 THEN formatTicketDetail(tickets[1])
  ELSE "I found " \o itoa(Len(tickets)) \o " ticket" \o (IF Len(tickets) > 1 THEN "s" ELSE "")
       \o " in your account: "
       \o formatTicketLines(tickets, 1)
       \o (IF Len(tickets) >= 10 THEN TruncationNote ELSE "")
       \o " Would you like to know more about a specific ticket? Just mention the ticket number!"

NotFoundText(ticketNumber) ==
  "I couldn't find a ticket with number #" \o ticketNumber
  \o " in your account. Please check the ticket number and try again, or ask me to show all your tickets."

StatusFailText ==
  "I'm having trouble retrieving your ticket information right now. Please try again or check your tickets in the Tickets section."

ticketSummary(t) ==
  [id |-> t.id, ticketNumber |-> t.ticketNumber, title |-> t.title,
   status |-> t.status, priority |-> t.priority, category |-> t.category]

(***************************************************************************)
(* Ticket creation                                                         *)
(***************************************************************************)
\* the ticket number the Ticket model generates for the n-th ticket
TicketNumberOf(n) == "TICKET-" \o itoa(n)

\* a variant of ticketData that neither clamps nor pads title and description
ticketData_asGiven(ticketInfo, userId) ==
  [title |-> IF ticketInfo.title # "" THEN ticketInfo.title ELSE "Chatbot Request",
   description |-> IF ticketInfo.description # "" THEN ticketInfo.description
                   ELSE IF ticketInfo.title # "" THEN ticketInfo.title
                   ELSE "Request created via chatbot",
   category |-> IF ticketInfo.category # "" THEN ticketInfo.category ELSE "General Inquiry",
   priority |-> IF ticketInfo.priority # "" THEN ticketInfo.priority ELSE "Normal",
   createdBy |-> userId,
   status |-> "Pending",
   requestDetails |-> ticketInfo.requestDetails]

\* the ticketData record createTicket builds from ticketInfo
ticketData(ticketInfo, userId) ==
  LET title == substring0(IF ticketInfo.title # "" THEN ticketInfo.title
                          ELSE "Chatbot Request", 200)
      description == substring0(IF ticketInfo.description # "" THEN ticketInfo.description
                                ELSE IF ticketInfo.title # "" THEN ticketInfo.title
                                ELSE "Request created via chatbot", 5000)
  IN [title |-> IF Len(title) < 5 THEN "Request from chatbot: " \o title ELSE title,
      description |-> IF Len(description) < 10
                      THEN description \o " (Created via chatbot)" ELSE description,
      category |-> IF ticketInfo.category # "" THEN ticketInfo.category ELSE "General Inquiry",
      priority |-> IF ticketInfo.priority # "" THEN ticketInfo.priority ELSE "Normal",
      createdBy |-> userId,
      status |-> "Pending",
      requestDetails |-> ticketInfo.requestDetails]

\* the document ticket.save() stores as the n-th ticket of the store
newTicket(data, n) ==
  [id |-> n, ticketNumber |-> TicketNumberOf(n), title |-> data.title,
   description |-> data.description, category |-> data.category,
   priority |-> data.priority, createdBy |-> data.createdBy, status |-> data.status,
   requestDetails |-> data.requestDetails, createdAt |-> n, updatedAt |-> n,
   assignedTo |-> Null, resolution |-> Null]

\* a variant of createTicket that saves again when populate fails
createTicket_saveTwice(ticketInfo, userId, store, saveOk, populateOk) ==
  LET ticket == newTicket(ticketData(ticketInfo, userId), Len(store) + 1)
      again == newTicket(ticketData(ticketInfo, userId), Len(store) + 2)
  IN IF ~saveOk THEN [threw |-> TRUE, store |-> store, ticket |-> Null]
     ELSE IF ~populateOk
     THEN [threw |-> FALSE, store |-> store \o <<ticket, again>>, ticket |-> again]
     ELSE [threw |-> FALSE, store |-> Append(store, ticket), ticket |-> ticket]

\* saveOk and populateOk are whether ticket.save() and ticket.populate()
\* succeed; an error of either is rethrown (threw)
createTicket(ticketInfo, userId, store, saveOk, populateOk) ==
  LET ticket == newTicket(ticketData(ticketInfo, userId), Len(store) + 1)
  IN IF ~saveOk THEN [threw |-> TRUE, store |-> store, ticket |-> Null]
     ELSE IF ~populateOk THEN [threw |-> TRUE, store |-> Append(store, ticket), ticket |-> Null]
     ELSE [threw |-> FALSE, store |-> Append(store, ticket), ticket |-> ticket]

CreatedText(ticket) ==
  "Great! I've created a ticket (#" \o ticket.ticketNumber \o ") for your request: \""
  \o ticket.title \o "\". Our staff will review it and respond within 1-2 business days."

CreateFailText ==
  "I'm having trouble creating the ticket right now. Please try creating a ticket manually through the Tickets section, or let me know if you'd like to try again."

(***************************************************************************)
(* Inputs                                                                  *)
(***************************************************************************)
MaxTickets == 2

User1 == "64b000000000000000000001"
User2 == "64b000000000000000000002"
Users == {User1, User2}

HexChars == DigitChars \cup {"a", "b", "c", "d", "e", "f", "A", "B", "C", "D", "E", "F"}
isMongoId(s) == Len(s) = 24 /\ \A i \in 1..24 : CharAt(s, i) \in HexChars

SampleFaqs ==
  << [question |-> "How do I enroll?",
      keywords |-> <<"enroll", "enrollment">>,
      answer |-> "Enrollment is done through the student portal during the enrollment period."],
     [question |-> "What are the office hours?",
      keywords |-> <<"office hours", "schedule">>,
      answer |-> "The office is open Monday to Friday, 8am to 5pm."] >>

SampleDepartments ==
  << [name |-> "Registrar's Office", location |-> "Admin Building, Room 101",
      hours |-> "8am-5pm", contact |-> "registrar@univ.edu", phone |-> "",
      services |-> Arr(<<"COE", "Transcript">>)],
     [name |-> "Archive", location |-> "Library Basement", hours |-> "9am-4pm",
      contact |-> "", phone |-> "", services |-> Undefined],
     [name |-> "Cashier", location |-> "Finance Building", hours |-> "8am-4pm",
      contact |-> "", phone |-> "555-0102",
      services |-> Arr(<<"Tuition Payment", "COE", "Clearance">>)] >>

\* what the two catalog files can load as: missing or unreadable files give
\* empty catalogs
Catalogs ==
  {[faqs |-> <<>>, departments |-> <<>>],
   [faqs |-> SampleFaqs, departments |-> SampleDepartments]}

\* a text of n characters
RECURSIVE Filler(_)
Filler(n) ==
  IF n = 0 THEN ""
  ELSE LET half == Filler(n \div 2)
       IN half \o half \o (IF n % 2 = 1 THEN "x" ELSE "")

RawMessages ==
  {"hello",
   "Hello, I need a transcript",
   "yes",
   "Yes, create a ticket for my grades asap",
   "where can I get my COE",
   "I need to get my COE",
   "how do I enroll",
   "I want to enroll in a subject",
   "  Show Ticket ",
   "check ticket TICKET-1",
   "my tickets",
   "what is my ticket status",
   "I have a problem with my account, urgent",
   "who is the dean",
   "where is the COE inquiry desk",
   "enrollment inquiry",
   "   ",
   "  hello " \o Filler(994) \o "  ",
   Filler(1001)}

BodyUserIds == {Undefined, Str(User1), Str("me")}

OtrMessage == "I need an OTR, 2 copies, purpose: job application"

OtrContext == [originalMessage |-> Str(OtrMessage), category |-> Str("OTR Request")]

\* an offer context that also carries fields of a Ticket
ForgedContext ==
  [originalMessage |-> Str(OtrMessage), category |-> Str("OTR Request"),
   createdBy |-> Str(User1), status |-> Str("Completed")]

Contexts ==
  {Undefined,
   OtrContext,
   [originalMessage |-> Str(OtrMessage), category |-> Str("Document Request")],
   [originalMessage |-> Str(OtrMessage), category |-> Undefined],
   [originalMessage |-> Undefined, category |-> Str("Grade Inquiry")],
   [originalMessage |-> Num(42), category |-> Str("General Inquiry")],
   [originalMessage |-> Arr(<<>>), category |-> Undefined],
   ForgedContext}

Affirmations == {"yes", "Yes, create a ticket for my grades asap"}

\* the request bodies of the first user: every message without and with an
\* offer context, the affirmations and a greeting with every context, and
\* an affirmation and the status inquiries with a userId field
Bodies ==
  [message : RawMessages, userId : {Undefined},
   conversationContext : {Undefined, OtrContext}]
  \cup [message : Affirmations \cup {"hello"}, userId : {Undefined},
        conversationContext : Contexts]
  \cup [message : {"yes", "  Show Ticket ", "check ticket TICKET-1"},
        userId : BodyUserIds, conversationContext : {Undefined}]

\* the request bodies of the second user: confirmed offers and status
\* inquiries, without and with the first user's id in the userId field
OtherBodies ==
  [message : {"yes"}, userId : {Undefined, Str(User1)},
   conversationContext : {OtrContext, ForgedContext}]
  \cup [message : {"  Show Ticket ", "check ticket TICKET-1"},
        userId : {Undefined, Str(User1)}, conversationContext : {Undefined}]

\* the requests: the authenticated user (req.user) and the body
Requests ==
  [user : {User1}, body : Bodies] \cup [user : {User2}, body : OtherBodies]

Hours == {9, 14, 20}
NodeEnvs == {"production", "development"}
ApiKeys == {"", "sk-test"}
Completions ==
  {[ok |-> TRUE, content |-> " Please visit the Registrar's Office. "],
   [ok |-> FALSE, content |-> ""]}

(***************************************************************************)
(* State                                                                   *)
(***************************************************************************)
VARIABLES
  tickets,          \* the Ticket collection, in creation order
  comments,         \* the TicketComment collection, in creation order
  faqData,          \* the FAQ catalog loaded at start-up
  departmentData,   \* the department catalog loaded at start-up
  phase,            \* "idle", or "done" when a response has been sent
  req,              \* the request of the current invocation
  res,              \* the response sent for it
  obs               \* what the invocation did: the stage it ended in, the
                    \* tickets it saved and read, its outbound calls,
                    \* whether a store or network call failed, the
                    \* error its catch block caught, and the
                    \* environment variables it read

vars == <<tickets, comments, faqData, departmentData, phase, req, res, obs>>

NoRequest == [user |-> "", body |-> Null]
NoResponse == [status |-> 0, body |-> Null]
Unread == "(unread)"
NoObs == [stage |-> 0, saved |-> 0, read |-> <<>>, calls |-> <<>>,
          failed |-> FALSE, error |-> "", OPENAI_API_KEY |-> Unread, NODE_ENV |-> Unread]

Init ==
  /\ tickets = <<>>
  /\ comments = <<>>
  /\ \E c \in Catalogs : faqData = [faqs |-> c.faqs]
                         /\ departmentData = [departments |-> c.departments]
  /\ phase = "idle"
  /\ req = NoRequest
  /\ res = NoResponse
  /\ obs = NoObs

(***************************************************************************)
(* POST /api/chatbot/message                                               *)
(***************************************************************************)
NoAction == "null"

\* the response object the handler starts from
response0 ==
  [text |-> "", action |-> NoAction, ticket |-> Null, tickets |-> Null,
   conversationContext |-> Undefined]

\* a variant of validationErrors without the length rule of message
validationErrors_anyLength(body) ==
  IF body.userId # Undefined /\ ~isMongoId(body.userId.str)
  THEN <<"Invalid user ID">> ELSE <<>>

\* express-validator chain: body('message').trim().isLength({min: 1, max: 1000})
\* and body('userId').optional().isMongoId()
validationErrors(body) ==
  (IF Len(trim(body.message)) < 1 \/ Len(trim(body.message)) > 1000
   THEN <<"Message must be between 1 and 1000 characters">> ELSE <<>>)
  \o (IF body.userId # Undefined /\ ~isMongoId(body.userId.str)
      THEN <<"Invalid user ID">> ELSE <<>>)

\* a variant of callerId that prefers the userId field of the body
callerId_fromBody(user, body) == IF body.userId # Undefined THEN body.userId.str ELSE user

\* const userId = req.user._id || req.user.id
callerId(user, body) == user

isTicketConfirmation(lowerMessage) ==
  \/ lowerMessage = "yes"
  \/ lowerMessage = "y"
  \/ lowerMessage = "create ticket"
  \/ lowerMessage = "create"
  \/ includes(lowerMessage, "yes, create")
  \/ includes(lowerMessage, "yes create")
  \/ lowerMessage = "ok"
  \/ lowerMessage = "okay"
  \/ lowerMessage = "sure"

\* conversationContext && conversationContext.originalMessage
hasOriginalMessage(conversationContext) ==
  conversationContext # Undefined /\ Truthy(conversationContext.originalMessage)

deptTicketIndicators ==
  <<"request", "need", "want", "apply", "create", "submit", "help with", "inquiry">>
faqTicketIndicators ==
  <<"request", "need", "want", "apply", "create", "submit", "help with">>
ticketIndicators ==
  <<"request", "need", "want", "apply", "create", "submit", "help with", "assistance",
    "issue", "problem">>

mightNeedTicket(indicators, lowerMessage) ==
  \E indicator \in Range(indicators) : includes(lowerMessage, indicator)

\* a variant of OfferContext that keeps the case-folded message
OfferContext_folded(message) ==
  [originalMessage |-> toLowerCase(message), category |-> detectTicketCategory(message)]

\* a variant of OfferContext that does not classify the message
OfferContext_general(message) ==
  [originalMessage |-> message, category |-> "General Inquiry"]

OfferContext(message) ==
  [originalMessage |-> message, category |-> detectTicketCategory(message)]

DeptOfferText ==
  " Would you like me to create a ticket for this? Just reply \"yes\" or \"create ticket\" and I'll set it up for you."
FaqOfferText ==
  " Would you like me to create a ticket for this request? Just reply \"yes\" or \"create ticket\" and I'll set it up for you."
NeedOfferText ==
  "I understand you need help with that. I can create a ticket for your request so our staff can assist you. Would you like me to create a ticket? Just reply \"yes\" or \"create ticket\" and I'll set it up for you."

TypeError(message) == [name |-> "TypeError", message |-> message]

\* the message of the 500 response
errorMessage(error) ==
  IF error.name = "ValidationError" THEN "Invalid request data"
  ELSE IF error.message # "" THEN error.message
  ELSE "Error processing message"

\* the error field of the 500 response
errorDetail(error, nodeEnv) ==
  IF nodeEnv = "development" THEN Str(error.message) ELSE Undefined

Send(status, body, store, o) ==
  /\ res' = [status |-> status, body |-> body]
  /\ tickets' = store
  /\ obs' = [o EXCEPT !.saved = Len(store) - Len(tickets)]

\* res.json({success: true, data: response})
Json(response, store, o) == Send(200, [success |-> TRUE, data |-> response], store, o)

\* the catch block of the handler
Catch(error, stage) ==
  \E nodeEnv \in NodeEnvs :
    Send(500,
         [success |-> FALSE, message |-> errorMessage(error),
          error |-> errorDetail(error, nodeEnv)],
         tickets,
         [NoObs EXCEPT !.stage = stage, !.error = error.message, !.NODE_ENV = nodeEnv])

\* a variant of the confirmation branches that lets the error of createTicket
\* reach the catch block of the handler
CreateAndReply_rethrow(ticketInfo, userId) ==
  \E saveOk \in (IF Len(tickets) < MaxTickets THEN BOOLEAN ELSE {FALSE}),
     populateOk \in BOOLEAN, nodeEnv \in NodeEnvs :
    LET r == createTicket(ticketInfo, userId, tickets, saveOk, populateOk)
        error == [name |-> "MongoError", message |-> "save failed"]
    IN IF r.threw
       THEN Send(500,
                 [success |-> FALSE, message |-> errorMessage(error),
                  error |-> errorDetail(error, nodeEnv)],
                 r.store,
                 [NoObs EXCEPT !.stage = 2, !.failed = TRUE, !.error = error.message,
                               !.NODE_ENV = nodeEnv])
       ELSE Json([response0 EXCEPT
                    !.text = CreatedText(r.ticket),
                    !.action = "ticket_created",
                    !.ticket = [id |-> r.ticket.id,
                                ticketNumber |-> r.ticket.ticketNumber,
                                title |-> r.ticket.title]],
                 r.store, [NoObs EXCEPT !.stage = 2])

\* a variant of the confirmation branches that creates the ticket for the
\* user the body names
CreateAndReply_forBodyUser(ticketInfo, userId) ==
  \E saveOk \in (IF Len(tickets) < MaxTickets THEN BOOLEAN ELSE {FALSE}),
     populateOk \in BOOLEAN :
    LET r == createTicket(ticketInfo, callerId_fromBody(req'.user, req'.body),
                          tickets, saveOk, populateOk)
    IN Json(IF r.threw
            THEN [response0 EXCEPT !.text = CreateFailText]
            ELSE [response0 EXCEPT
                    !.text = CreatedText(r.ticket),
                    !.action = "ticket_created",
                    !.ticket = [id |-> r.ticket.id,
                                ticketNumber |-> r.ticket.ticketNumber,
                                title |-> r.ticket.title]],
            r.store,
            [NoObs EXCEPT !.stage = 2, !.failed = r.threw])

\* a variant of the confirmation branches that creates no second ticket of
\* the same content for the same user
CreateAndReply_deduplicated(ticketInfo, userId) ==
  \E saveOk \in (IF Len(tickets) < MaxTickets THEN BOOLEAN ELSE {FALSE}),
     populateOk \in BOOLEAN :
    LET duplicate ==
          \E i \in DOMAIN tickets :
            /\ tickets[i].createdBy = userId
            /\ tickets[i].description = ticketData(ticketInfo, userId).description
        r == IF duplicate THEN [threw |-> FALSE, store |-> tickets, ticket |-> tickets[1]]
             ELSE createTicket(ticketInfo, userId, tickets, saveOk, populateOk)
    IN Json(IF r.threw
            THEN [response0 EXCEPT !.text = CreateFailText]
            ELSE [response0 EXCEPT
                    !.text = CreatedText(r.ticket),
                    !.action = "ticket_created",
                    !.ticket = [id |-> r.ticket.id,
                                ticketNumber |-> r.ticket.ticketNumber,
                                title |-> r.ticket.title]],
            r.store,
            [NoObs EXCEPT !.stage = 2, !.failed = r.threw])

\* try { createTicket ... } catch { apology } of both confirmation branches
CreateAndReply(ticketInfo, userId) ==
  \E saveOk \in (IF Len(tickets) < MaxTickets THEN BOOLEAN ELSE {FALSE}),
     populateOk \in BOOLEAN :
    LET r == createTicket(ticketInfo, userId, tickets, saveOk, populateOk)
    IN Json(IF r.threw
            THEN [response0 EXCEPT !.text = CreateFailText]
            ELSE [response0 EXCEPT
                    !.text = CreatedText(r.ticket),
                    !.action = "ticket_created",
                    !.ticket = [id |-> r.ticket.id,
                                ticketNumber |-> r.ticket.ticketNumber,
                                title |-> r.ticket.title]],
            r.store,
            [NoObs EXCEPT !.stage = 2, !.failed = r.threw])

\* a variant of the first confirmation branch that takes the ticket content
\* from the utterance
ConfirmWithContext_fromUtterance(conversationContext, userId) ==
  LET message == trim(req'.body.message)
      contextCategory == conversationContext.category
      category == IF Truthy(contextCategory) THEN contextCategory.str
                  ELSE detectTicketCategory(message)
  IN CreateAndReply(extractTicketInfo(message, category), userId)

\* stage 2 with conversationContext.originalMessage
ConfirmWithContext(conversationContext, userId) ==
  LET originalMessage == conversationContext.originalMessage
      contextCategory == conversationContext.category
  IN IF ~Truthy(contextCategory) /\ originalMessage.type # "string"
     THEN Catch(TypeError("message.toLowerCase is not a function"), 2)
     ELSE IF originalMessage.type # "string"
     THEN Catch(TypeError("message.substring is not a function"), 2)
     ELSE LET category == IF Truthy(contextCategory) THEN contextCategory.str
                          ELSE detectTicketCategory(originalMessage.str)
          IN CreateAndReply(extractTicketInfo(originalMessage.str, category), userId)

\* stage 2 without it
ConfirmWithoutContext(message, userId) ==
  CreateAndReply(extractTicketInfo(message, detectTicketCategory(message)), userId)

\* a variant of stage 3 that never offers a ticket
DepartmentReply_neverOffers(department, message, lowerMessage) ==
  Json([response0 EXCEPT
          !.text = formatDepartmentInfo(department),
          !.action = "department_info"],
       tickets, [NoObs EXCEPT !.stage = 3])

\* stage 3, for the department found
DepartmentReply(department, message, lowerMessage) ==
  Json(IF mightNeedTicket(deptTicketIndicators, lowerMessage)
       THEN [response0 EXCEPT
               !.text = formatDepartmentInfo(department) \o DeptOfferText,
               !.action = "ticket_offer",
               !.conversationContext = OfferContext(message)]
       ELSE [response0 EXCEPT
               !.text = formatDepartmentInfo(department),
               !.action = "department_info"],
       tickets, [NoObs EXCEPT !.stage = 3])

\* a variant of stage 4 that offers a ticket without the context
FaqReply_withoutContext(faqAnswer, message, lowerMessage) ==
  Json(IF mightNeedTicket(faqTicketIndicators, lowerMessage)
       THEN [response0 EXCEPT
               !.text = faqAnswer \o FaqOfferText,
               !.action = "ticket_offer"]
       ELSE [response0 EXCEPT !.text = faqAnswer],
       tickets, [NoObs EXCEPT !.stage = 4])

\* stage 4, for the FAQ answer found
FaqReply(faqAnswer, message, lowerMessage) ==
  Json(IF mightNeedTicket(faqTicketIndicators, lowerMessage)
       THEN [response0 EXCEPT
               !.text = faqAnswer \o FaqOfferText,
               !.action = "ticket_offer",
               !.conversationContext = OfferContext(message)]
       ELSE [response0 EXCEPT !.text = faqAnswer],
       tickets, [NoObs EXCEPT !.stage = 4])

\* the try block of stage 5 over the store: the response, the tickets the
\* query returned and whether it failed
statusInquiry(store, message, userId, findOk) ==
  LET ticketNumber == extractTicketNumber(message)
      r == getUserTickets(store, userId, ticketNumber, findOk)
  IN [read |-> r.tickets,
      failed |-> r.threw,
      response |->
        IF r.threw
        THEN [response0 EXCEPT !.text = StatusFailText]
        ELSE IF Len(r.tickets) = 0
        THEN [response0 EXCEPT
                !.text = IF Truthy(ticketNumber) THEN NotFoundText(ticketNumber.str)
                         ELSE NoTicketsText]
        ELSE [response0 EXCEPT
                !.text = formatTicketStatus(r.tickets, Truthy(ticketNumber)),
                !.action = "ticket_status",
                !.tickets = Arr([i \in DOMAIN r.tickets |-> ticketSummary(r.tickets[i])])]]

\* stage 5
StatusReply(message, userId) ==
  \E findOk \in BOOLEAN :
    LET r == statusInquiry(tickets, message, userId, findOk)
    IN Json(r.response, tickets,
            [NoObs EXCEPT !.stage = 5, !.read = r.read, !.failed = r.failed])

\* a variant of stage 6 that creates the ticket at once instead of offering it
NeedReply_autoCreate(message) ==
  CreateAndReply(extractTicketInfo(message, detectTicketCategory(message)), req'.user)

\* stage 6
NeedReply(message) ==
  Json([response0 EXCEPT
          !.text = NeedOfferText,
          !.action = "ticket_offer",
          !.conversationContext = OfferContext(message)],
       tickets, [NoObs EXCEPT !.stage = 6])

\* stage 7
FallbackReply(message) ==
  \E openaiApiKey \in ApiKeys, completion \in Completions :
    LET r == getGPTResponse(message, departmentData.departments, openaiApiKey, completion)
    IN Json([response0 EXCEPT !.text = r.text], tickets,
            [NoObs EXCEPT !.stage = 7, !.calls = r.calls, !.failed = r.failed,
                          !.OPENAI_API_KEY = openaiApiKey])

\* a variant of stages 3 to 7 that tests for a status inquiry first
Route3_statusFirst(message, lowerMessage, userId) ==
  LET department == findDepartmentByService(departmentData.departments, message)
      faqAnswer == matchFAQ(faqData.faqs, message)
  IN IF detectTicketStatusInquiry(lowerMessage)
     THEN StatusReply(message, userId)
     ELSE IF department # Null
     THEN DepartmentReply(department, message, lowerMessage)
     ELSE IF Truthy(faqAnswer)
     THEN FaqReply(faqAnswer.str, message, lowerMessage)
     ELSE IF mightNeedTicket(ticketIndicators, lowerMessage)
     THEN NeedReply(message)
     ELSE FallbackReply(message)

\* stages 3 to 7
Route3(message, lowerMessage, userId) ==
  LET department == findDepartmentByService(departmentData.departments, message)
      faqAnswer == matchFAQ(faqData.faqs, message)
  IN IF department # Null
     THEN DepartmentReply(department, message, lowerMessage)
     ELSE IF Truthy(faqAnswer)
     THEN FaqReply(faqAnswer.str, message, lowerMessage)
     ELSE IF detectTicketStatusInquiry(lowerMessage)
     THEN StatusReply(message, userId)
     ELSE IF mightNeedTicket(ticketIndicators, lowerMessage)
     THEN NeedReply(message)
     ELSE FallbackReply(message)

\* the handler, for the authenticated user and the request body
Handle(user, body) ==
  /\ phase' = "done"
  /\ req' = [user |-> user, body |-> body]
  /\ UNCHANGED <<comments, faqData, departmentData>>
  /\ IF validationErrors(body) # <<>>
     THEN Send(400,
               [success |-> FALSE, message |-> "Validation failed",
                errors |-> validationErrors(body)],
               tickets, NoObs)
     ELSE LET message == trim(body.message)
              userId == callerId(user, body)
              lowerMessage == trim(toLowerCase(message))
          IN IF detectGreeting(message)
             THEN \E hour \in Hours :
                    Json([response0 EXCEPT !.text = getGreetingResponse(hour)],
                         tickets, [NoObs EXCEPT !.stage = 1])
             ELSE IF isTicketConfirmation(lowerMessage)
                     /\ hasOriginalMessage(body.conversationContext)
             THEN ConfirmWithContext(body.conversationContext, userId)
             ELSE IF isTicketConfirmation(lowerMessage)
             THEN ConfirmWithoutContext(message, userId)
             ELSE Route3(message, lowerMessage, userId)

\* a request arrives while the process is idle
PostMessage(user, body) == phase = "idle" /\ Handle(user, body)

\* the response has been delivered; the process waits for the next request
EndRequest ==
  /\ phase = "done"
  /\ phase' = "idle"
  /\ req' = NoRequest
  /\ res' = NoResponse
  /\ obs' = NoObs
  /\ UNCHANGED <<tickets, comments, faqData, departmentData>>

Next ==
  \/ \E r \in Requests : PostMessage(r.user, r.body)
  \/ EndRequest

Spec == Init /\ [][Next]_vars

(***************************************************************************)
(* Status inquiries over a populated ticket collection                     *)
(***************************************************************************)
MaxStatusTickets == 12

\* the collection after the users of owners, in turn, each confirmed the
\* offer of OtrContext
RECURSIVE StoreOf(_)
StoreOf(owners) ==
  IF owners = <<>> THEN <<>>
  ELSE LET before == StoreOf(SubSeq(owners, 1, Len(owners) - 1))
       IN createTicket(extractTicketInfo(OtrMessage, "OTR Request"),
                       owners[Len(owners)], before, TRUE, TRUE).store

\* collections of up to MaxStatusTickets tickets: all of the first user, or
\* every third one of the second user
StatusStores ==
  {StoreOf([i \in 1..n |-> User1]) : n \in 0..MaxStatusTickets}
  \cup {StoreOf([i \in 1..n |-> IF i % 3 = 0 THEN User2 ELSE User1]) :
          n \in 0..MaxStatusTickets}

StatusMessages ==
  {"  Show Ticket ",
   "show my tickets",
   "check ticket TICKET-1",
   "check ticket ticket-3",
   "check ticket TICKET-12",
   "check ticket TICKET-20240101-ABC",
   "view ticket ticket-20240101-abc please"}

StatusRequests ==
  [user : Users,
   body : [message : StatusMessages, userId : {Undefined},
           conversationContext : {Undefined}]]

InitStatus ==
  /\ tickets \in StatusStores
  /\ comments = <<>>
  /\ \E c \in Catalogs : faqData = [faqs |-> c.faqs]
                         /\ departmentData = [departments |-> c.departments]
  /\ phase = "idle"
  /\ req = NoRequest
  /\ res = NoResponse
  /\ obs = NoObs

NextStatus ==
  \/ \E r \in StatusRequests : PostMessage(r.user, r.body)
  \/ EndRequest

SpecStatus == InitStatus /\ [][NextStatus]_vars

(***************************************************************************)
(* The classifiers and createTicket called on their own: req is the call   *)
(* and res the value it returned                                           *)
(***************************************************************************)
MaxCreateCalls == 1

\* the words the messages of the calls are made of: cues of both priority
\* levels in either case, keywords of several categories (some of them
\* inside longer words), and words that are no keyword
Fragments ==
  {"", "URGENT", "asap", "Immediately", "important", "Soon", "Transcript", "doctor",
   "tuition payment fee", "Problem", "dean"}

CallMessages == {a \o " please " \o b : a \in Fragments, b \in Fragments}

NoRequestDetails ==
  [numberOfCopies |-> Undefined, purpose |-> Undefined,
   subjectCode |-> Undefined, subjectName |-> Undefined]

\* ticketInfo records: titles and descriptions that are empty, shorter than
\* the minimum and longer than the maximum, and the ticketInfo of a text
\* longer than the message limit
TicketInfos ==
  [title : {"", "help", Filler(201)},
   description : {"", "see title", Filler(5001)},
   category : {"General Inquiry"}, priority : {"Normal"},
   requestDetails : {NoRequestDetails}]
  \cup {extractTicketInfo("urgent " \o Filler(1200), "General Inquiry")}

CallDetectTicketCategory(message) ==
  /\ phase = "idle"
  /\ phase' = "done"
  /\ req' = [call |-> "detectTicketCategory", message |-> message]
  /\ res' = [value |-> detectTicketCategory(message)]
  /\ UNCHANGED <<tickets, comments, faqData, departmentData, obs>>

\* extractTicketInfo(message, detectTicketCategory(message)), as stage 2 calls it
CallExtractTicketInfo(message) ==
  /\ phase = "idle"
  /\ phase' = "done"
  /\ req' = [call |-> "extractTicketInfo", message |-> message]
  /\ res' = [value |-> extractTicketInfo(message, detectTicketCategory(message))]
  /\ UNCHANGED <<tickets, comments, faqData, departmentData, obs>>

CallCreateTicket(ticketInfo, userId) ==
  /\ phase = "idle"
  /\ Len(tickets) < MaxCreateCalls
  /\ phase' = "done"
  /\ req' = [call |-> "createTicket", ticketInfo |-> ticketInfo, userId |-> userId]
  /\ \E saveOk \in BOOLEAN, populateOk \in BOOLEAN :
       LET r == createTicket(ticketInfo, userId, tickets, saveOk, populateOk)
       IN /\ res' = [threw |-> r.threw, value |-> r.ticket]
          /\ tickets' = r.store
  /\ UNCHANGED <<comments, faqData, departmentData, obs>>

\* utterances with and without a location cue and a service name, and the
\* department catalogs they are looked up in
DepartmentMessages ==
  {"where can I get COE clearance tuition payment",
   "Where is the CLEARANCE desk",
   "COE clearance please",
   "where is the library",
   "together with my transcript",
   "tuition payment location",
   "I need my transcript"}

DepartmentCatalogs == {<<>>, SampleDepartments, Reverse(SampleDepartments)}

\* findDepartmentByService(message) with departmentData.departments as loaded
CallFindDepartmentByService(message, departments) ==
  /\ phase = "idle"
  /\ phase' = "done"
  /\ req' = [call |-> "findDepartmentByService", message |-> message,
             departments |-> departments]
  /\ res' = [value |-> findDepartmentByService(departments, message)]
  /\ UNCHANGED <<tickets, comments, faqData, departmentData, obs>>

InitCalls ==
  /\ tickets = <<>>
  /\ comments = <<>>
  /\ faqData = [faqs |-> <<>>]
  /\ departmentData = [departments |-> <<>>]
  /\ phase = "idle"
  /\ req = NoRequest
  /\ res = NoResponse
  /\ obs = NoObs

NextCalls ==
  \/ \E message \in CallMessages : CallDetectTicketCategory(message)
  \/ \E message \in CallMessages : CallExtractTicketInfo(message)
  \/ \E ticketInfo \in TicketInfos : CallCreateTicket(ticketInfo, User1)
  \/ \E message \in DepartmentMessages, departments \in DepartmentCatalogs :
       CallFindDepartmentByService(message, departments)
  \/ EndRequest

SpecCalls == InitCalls /\ [][NextCalls]_vars

(***************************************************************************)
(* The offer/confirm round trip: the client answers a ticket_offer         *)
(* response with an affirmation and the conversationContext it received    *)
(***************************************************************************)
\* utterances that are offered a ticket at stage 3, 4 or 6, one of them
\* shorter than 10 characters, and utterances that are not
RoundTripMessages ==
  {"need",
   OtrMessage,
   "I need to get my COE",
   "where is the COE inquiry desk",
   "I want to enroll in a subject",
   "hello",
   "who is the dean"}

\* the conversationContext of a response as the client sends it back in a
\* JSON request body
Echo(context) ==
  [originalMessage |-> Str(context.originalMessage), category |-> Str(context.category)]

\* the requests of the first user: an utterance without a context
Asked ==
  [user : {User1},
   body : [message : RoundTripMessages, userId : {Undefined},
           conversationContext : {Undefined}]]

\* the requests of the second user, who never sends anything else: an
\* affirmation with a context of their own making
Unoffered ==
  [user : {User2},
   body : [message : Affirmations, userId : {Undefined},
           conversationContext : {OtrContext}]]

\* the requests that answer the response on display, when it offers a
\* ticket: an affirmation of the same user with the context of that response
Confirming ==
  IF phase = "done" /\ res.status = 200 /\ res.body.data.action = "ticket_offer"
  THEN [user : {req.user},
        body : [message : Affirmations, userId : {Undefined},
                conversationContext : {Echo(res.body.data.conversationContext)}]]
  ELSE {}

\* the handler runs on a new request, or on the confirmation of the offer
\* on display
Exchange ==
  \E r \in (IF phase = "idle" THEN Asked \cup Unoffered ELSE Confirming) :
    Handle(r.user, r.body)

NextRoundTrip ==
  \/ Exchange
  \/ EndRequest

SpecRoundTrip == Init /\ [][NextRoundTrip]_vars

(***************************************************************************)
(* The admin routes (routes/admin.js behind middleware/admin.js)           *)
(***************************************************************************)
MaxComments == 2

Admin1 == "64b0000000000000000000ad"

\* req.user.role as authenticate sets it: one administrator, the others
\* ordinary users
roleOf(user) == IF user = Admin1 THEN "admin" ELSE "user"

\* a variant of the role check that lets every authenticated user through
requireAdmin_anyUser(user) == user # ""

\* the condition under which requireAdmin calls next()
requireAdmin(user) == user # "" /\ roleOf(user) = "admin"

\* the time Date.now() returns: later than every creation time
UpdateTime == 100

\* the document comment.save() stores as the n-th comment of the collection;
\* isInternal and isSystemNote default to false
newComment(ticket, author, content, isInternal, isSystemNote, n) ==
  [id |-> n, ticket |-> ticket, author |-> author, content |-> content,
   isInternal |-> isInternal, isSystemNote |-> isSystemNote, createdAt |-> n]

\* Ticket.findById
findById(store, id) == IF id \in 1..Len(store) THEN store[id] ELSE Null

\* the errors a failing store call throws: with and without a message
StoreErrors ==
  {[name |-> "MongoError", message |-> "store unavailable"],
   [name |-> "Error", message |-> ""]}

\* what an admin invocation did: the store calls it made, in order
AdminObs(calls) == [NoObs EXCEPT !.calls = calls]

\* res.status(status).json(body), with the two collections as the
\* invocation leaves them
Respond(status, body, store, notes, o) ==
  /\ res' = [status |-> status, body |-> body]
  /\ tickets' = store
  /\ comments' = notes
  /\ obs' = o

\* the else branch of requireAdmin
AccessDenied ==
  Respond(403,
          [success |-> FALSE, message |-> "Access denied. Admin privileges required."],
          tickets, comments, NoObs)

\* the 400 response of a route whose validators reported errors
ValidationFailed(errors) ==
  Respond(400, [success |-> FALSE, message |-> "Validation failed", errors |-> errors],
          tickets, comments, NoObs)

\* the 404 response of the routes that load a ticket by id
TicketNotFound(calls) ==
  Respond(404, [success |-> FALSE, message |-> "Ticket not found"],
          tickets, comments, AdminObs(calls))

\* the catch block of an admin route, entered when the last call of calls
\* threw
AdminCatch(fallback, store, notes, calls) ==
  \E error \in StoreErrors, nodeEnv \in NodeEnvs :
    Respond(500,
            [success |-> FALSE,
             message |-> IF error.message # "" THEN error.message ELSE fallback,
             error |-> errorDetail(error, nodeEnv)],
            store, notes,
            [NoObs EXCEPT !.calls = calls, !.failed = TRUE, !.error = error.message,
                          !.NODE_ENV = nodeEnv])

\* the request of an admin route
AdminRequest(user, route, id, query, body) ==
  [user |-> user, route |-> route, params |-> [id |-> id], query |-> query,
   body |-> body]

TicketStatuses ==
  <<"Pending", "In Review", "Approved", "Rejected", "Completed", "Cancelled", "On Hold">>

\* GET /tickets, for the status filter of the query string; the other
\* query parameters are absent, so page is 1, limit 10 and the order is
\* newest first
GetTickets(user, query) ==
  /\ phase = "idle"
  /\ phase' = "done"
  /\ req' = AdminRequest(user, "GET /tickets", 0, query, Null)
  /\ UNCHANGED <<faqData, departmentData>>
  /\ IF ~requireAdmin(user) THEN AccessDenied
     ELSE IF query.status # Undefined /\ query.status.str \notin Range(TicketStatuses)
     THEN ValidationFailed(<<[msg |-> "Invalid status", path |-> "status"]>>)
     ELSE \E failing \in {"none", "Ticket.find", "Ticket.countDocuments"} :
       LET Matches(t) == ~Truthy(query.status) \/ t.status = query.status.str
           found == SelectSeq(tickets, Matches)
           page == SubSeq(Reverse(found), 1, Min(10, Len(found)))
       IN IF failing = "Ticket.find"
          THEN AdminCatch("Error fetching tickets", tickets, comments, <<"Ticket.find">>)
          ELSE IF failing = "Ticket.countDocuments"
          THEN AdminCatch("Error fetching tickets", tickets, comments,
                          <<"Ticket.find", "Ticket.countDocuments">>)
          ELSE Respond(200,
                       [success |-> TRUE,
                        data |-> [tickets |-> page,
                                  pagination |-> [page |-> 1, limit |-> 10,
                                                  total |-> Len(found),
                                                  pages |-> (Len(found) + 9) \div 10]]],
                       tickets, comments,
                       [AdminObs(<<"Ticket.find", "Ticket.countDocuments">>)
                          EXCEPT !.read = page])

\* GET /tickets/:id
GetTicket(user, id) ==
  /\ phase = "idle"
  /\ phase' = "done"
  /\ req' = AdminRequest(user, "GET /tickets/:id", id, Null, Null)
  /\ UNCHANGED <<faqData, departmentData>>
  /\ IF ~requireAdmin(user) THEN AccessDenied
     ELSE \E failing \in {"none", "Ticket.findById", "TicketComment.find"} :
       LET ticket == findById(tickets, id)
           OfTicket(c) == c.ticket = id
       IN IF failing = "Ticket.findById"
          THEN AdminCatch("Error fetching ticket", tickets, comments, <<"Ticket.findById">>)
          ELSE IF ticket = Null THEN TicketNotFound(<<"Ticket.findById">>)
          ELSE IF failing = "TicketComment.find"
          THEN AdminCatch("Error fetching ticket", tickets, comments,
                          <<"Ticket.findById", "TicketComment.find">>)
          ELSE Respond(200,
                       [success |-> TRUE,
                        data |-> [ticket |-> ticket,
                                  comments |-> SelectSeq(comments, OfTicket)]],
                       tickets, comments,
                       [AdminObs(<<"Ticket.findById", "TicketComment.find">>)
                          EXCEPT !.read = <<ticket>>])

\* the validators of PUT /tickets/:id/status
statusErrors(body) ==
  (IF body.status.type = "string"
      /\ body.status.str \in {"Pending", "In Review", "Completed"}
   THEN <<>>
   ELSE <<[msg |-> "Status must be Pending, In Review, or Completed", path |-> "status"]>>)
  \o (IF body.remarks.type = "string" /\ Len(trim(body.remarks.str)) > 2000
      THEN <<[msg |-> "Remarks cannot exceed 2000 characters", path |-> "remarks"]>>
      ELSE <<>>)

\* a variant of the system note that records only the new status
statusNote_newOnly(oldStatus, status) ==
  "Status changed to \"" \o status \o "\" by admin"

\* the content of the system note of a status change
statusNote(oldStatus, status) ==
  "Status changed from \"" \o oldStatus \o "\" to \"" \o status \o "\" by admin"

\* PUT /tickets/:id/status: the store calls run in the order findById,
\* comment.save (when there are remarks), ticket.save, statusComment.save,
\* populate, and any one of them may throw
PutTicketStatus(user, id, body) ==
  /\ phase = "idle"
  /\ Len(comments) + 2 <= MaxComments
  /\ phase' = "done"
  /\ req' = AdminRequest(user, "PUT /tickets/:id/status", id, Null, body)
  /\ UNCHANGED <<faqData, departmentData>>
  /\ IF ~requireAdmin(user) THEN AccessDenied
     ELSE IF statusErrors(body) # <<>> THEN ValidationFailed(statusErrors(body))
     ELSE \E failing \in {"none", "Ticket.findById", "comment.save", "ticket.save",
                          "statusComment.save", "ticket.populate"} :
       LET ticket == findById(tickets, id)
           status == body.status.str
           remarks == IF body.remarks.type = "string" THEN trim(body.remarks.str) ELSE ""
           remark == newComment(id, user, remarks, FALSE, FALSE, Len(comments) + 1)
           remarked == IF remarks # "" THEN Append(comments, remark) ELSE comments
           first == <<"Ticket.findById">>
                    \o (IF remarks # "" THEN <<"comment.save">> ELSE <<>>)
           updated == [tickets EXCEPT ![id].status = status, ![id].updatedAt = UpdateTime]
           note == newComment(id, user, statusNote(ticket.status, status), FALSE, TRUE,
                              Len(remarked) + 1)
           fallback == "Error updating ticket status"
       IN IF failing = "Ticket.findById"
          THEN AdminCatch(fallback, tickets, comments, <<"Ticket.findById">>)
          ELSE IF ticket = Null THEN TicketNotFound(<<"Ticket.findById">>)
          ELSE IF remarks # "" /\ failing = "comment.save"
          THEN AdminCatch(fallback, tickets, comments, first)
          ELSE IF failing = "ticket.save"
          THEN AdminCatch(fallback, tickets, remarked, first \o <<"ticket.save">>)
          ELSE IF failing = "statusComment.save"
          THEN AdminCatch(fallback, updated, remarked,
                          first \o <<"ticket.save", "statusComment.save">>)
          ELSE IF failing = "ticket.populate"
          THEN AdminCatch(fallback, updated, Append(remarked, note),
                          first \o <<"ticket.save", "statusComment.save", "ticket.populate">>)
          ELSE Respond(200,
                       [success |-> TRUE, message |-> "Ticket status updated successfully",
                        data |-> [ticket |-> updated[id]]],
                       updated, Append(remarked, note),
                       [AdminObs(first \o <<"ticket.save", "statusComment.save",
                                            "ticket.populate">>)
                          EXCEPT !.read = <<ticket>>])

\* the validators of POST /tickets/:id/comments
commentErrors(body) ==
  (IF body.content.type = "string" /\ Len(trim(body.content.str)) \in 1..2000
   THEN <<>>
   ELSE <<[msg |-> "Comment must be between 1 and 2000 characters", path |-> "content"]>>)
  \o (IF body.isInternal \in {Undefined, Bool(TRUE),
                              Bool(FALSE)}
      THEN <<>>
      ELSE <<[msg |-> "isInternal must be a boolean", path |-> "isInternal"]>>)

\* POST /tickets/:id/comments
PostTicketComment(user, id, body) ==
  /\ phase = "idle"
  /\ Len(comments) < MaxComments
  /\ phase' = "done"
  /\ req' = AdminRequest(user, "POST /tickets/:id/comments", id, Null, body)
  /\ UNCHANGED <<faqData, departmentData>>
  /\ IF ~requireAdmin(user) THEN AccessDenied
     ELSE IF commentErrors(body) # <<>> THEN ValidationFailed(commentErrors(body))
     ELSE \E failing \in {"none", "Ticket.findById", "comment.save", "comment.populate"} :
       LET ticket == findById(tickets, id)
           isInternal == IF body.isInternal = Undefined THEN FALSE ELSE body.isInternal.bool
           comment == newComment(id, user, trim(body.content.str), isInternal, FALSE,
                                 Len(comments) + 1)
           fallback == "Error adding remark"
       IN IF failing = "Ticket.findById"
          THEN AdminCatch(fallback, tickets, comments, <<"Ticket.findById">>)
          ELSE IF ticket = Null THEN TicketNotFound(<<"Ticket.findById">>)
          ELSE IF failing = "comment.save"
          THEN AdminCatch(fallback, tickets, comments, <<"Ticket.findById", "comment.save">>)
          ELSE IF failing = "comment.populate"
          THEN AdminCatch(fallback, tickets, Append(comments, comment),
                          <<"Ticket.findById", "comment.save", "comment.populate">>)
          ELSE Respond(200,
                       [success |-> TRUE, message |-> "Remark added successfully",
                        data |-> [comment |-> comment]],
                       tickets, Append(comments, comment),
                       [AdminObs(<<"Ticket.findById", "comment.save", "comment.populate">>)
                          EXCEPT !.read = <<ticket>>])

\* the rows { name, value } of Ticket.aggregate grouped by a field, as
\* formatStatsArray returns them; rows of equal count come in the order the
\* store chooses, so the rows are modelled as a set
groupCounts(store, field) ==
  {[name |-> store[i][field],
    value |-> Cardinality({j \in 1..Len(store) : store[j][field] = store[i][field]})] :
     i \in 1..Len(store)}

\* GET /statistics; the two aggregates over creation dates are not part of
\* the model, whose creation times are logical
GetStatistics(user) ==
  /\ phase = "idle"
  /\ phase' = "done"
  /\ req' = AdminRequest(user, "GET /statistics", 0, Null, Null)
  /\ UNCHANGED <<faqData, departmentData>>
  /\ IF ~requireAdmin(user) THEN AccessDenied
     ELSE \E failing \in {"none", "Ticket.countDocuments", "Ticket.aggregate"} :
       LET count(status) == Cardinality({i \in 1..Len(tickets) : tickets[i].status = status})
       IN IF failing = "Ticket.countDocuments"
          THEN AdminCatch("Error fetching statistics", tickets, comments,
                          <<"Ticket.countDocuments">>)
          ELSE IF failing = "Ticket.aggregate"
          THEN AdminCatch("Error fetching statistics", tickets, comments,
                          <<"Ticket.countDocuments", "Ticket.aggregate">>)
          ELSE Respond(200,
                       [success |-> TRUE,
                        data |-> [statistics |->
                          [total |-> Len(tickets), pending |-> count("Pending"),
                           inReview |-> count("In Review"), completed |-> count("Completed"),
                           approved |-> count("Approved"), rejected |-> count("Rejected"),
                           cancelled |-> count("Cancelled"), onHold |-> count("On Hold"),
                           byCategory |-> groupCounts(tickets, "category"),
                           byPriority |-> groupCounts(tickets, "priority"),
                           byStatus |-> groupCounts(tickets, "status")]]],
                       tickets, comments,
                       [AdminObs(<<"Ticket.countDocuments", "Ticket.aggregate">>)
                          EXCEPT !.read = tickets])

\* the users who call the admin routes, the ticket collection they find
\* (one ticket of each user), the identifiers they name (the second ticket
\* and an unknown one) and the requests they send
AdminUsers == {Admin1, User1}

AdminStores == {StoreOf(<<User1, User2>>)}

AdminTicketIds == {2, 3}

ListQueries == [status : {Undefined, Str("Pending"), Str("Completed"), Str("Closed")}]

StatusBodies ==
  [status : {Undefined, Str("Pending"), Str("In Review"), Str("Completed"), Str("Approved")},
   remarks : {Undefined, Str("   "), Str(" Please bring your ID ")}]
  \cup {[status |-> Str("Completed"), remarks |-> Str(Filler(2001))]}

CommentBodies ==
  [content : {Undefined, Str("   "), Str(" Noted ")},
   isInternal : {Undefined, Bool(TRUE), Str("maybe")}]

InitAdmin ==
  /\ tickets \in AdminStores
  /\ comments = <<>>
  /\ faqData = [faqs |-> <<>>]
  /\ departmentData = [departments |-> <<>>]
  /\ phase = "idle"
  /\ req = NoRequest
  /\ res = NoResponse
  /\ obs = NoObs

NextAdmin ==
  \/ \E user \in AdminUsers, query \in ListQueries : GetTickets(user, query)
  \/ \E user \in AdminUsers, id \in AdminTicketIds : GetTicket(user, id)
  \/ \E user \in AdminUsers, id \in AdminTicketIds, body \in StatusBodies :
       PutTicketStatus(user, id, body)
  \/ \E user \in AdminUsers, id \in AdminTicketIds, body \in CommentBodies :
       PostTicketComment(user, id, body)
  \/ \E user \in AdminUsers : GetStatistics(user)
  \/ EndRequest

SpecAdmin == InitAdmin /\ [][NextAdmin]_vars

(***************************************************************************)
(* Properties                                                              *)
(***************************************************************************)
\* a response has been sent for a request that passed validation
Answered == phase = "done" /\ res.status # 400

\* the utterance the router sees, and its trimmed, case-folded form
Utterance == trim(req.body.message)
FoldedUtterance == trim(toLowerCase(Utterance))

\* the Response of a success envelope
Data == res.body.data

Succeeded == res.status = 200 /\ res.body.success

\* the affirmation set of stage 2
InAffirmationSet(folded) ==
  \/ folded \in {"yes", "y", "ok", "okay", "sure", "create", "create ticket"}
  \/ includes(folded, "yes, create")
  \/ includes(folded, "yes create")

GreetingPrefixes ==
  {"hi", "hello", "hey", "greetings", "good morning", "good afternoon", "good evening",
   "good day"}

StartsWithGreeting(folded) == \E p \in GreetingPrefixes : MatchAt(folded, 1, p)

\* the predicate of each stage, for an utterance and the catalogs loaded
StageMatchesFor(n, utterance, catalog) ==
  LET folded == trim(toLowerCase(utterance))
  IN CASE n = 1 -> StartsWithGreeting(folded)
       [] n = 2 -> InAffirmationSet(folded)
       [] n = 3 -> findDepartmentByService(catalog.departments, utterance) # Null
       [] n = 4 -> Truthy(matchFAQ(catalog.faqs, utterance))
       [] n = 5 -> detectTicketStatusInquiry(utterance)
       [] n = 6 -> \E k \in {"request", "need", "want", "apply", "create", "submit",
                             "help with", "assistance", "issue", "problem"} :
                     includes(folded, k)
       [] n = 7 -> TRUE

\* the catalogs of the current state
LoadedCatalog == [faqs |-> faqData.faqs, departments |-> departmentData.departments]

\* the predicate of each stage, for the request of the current invocation
StageMatches(n) == StageMatchesFor(n, Utterance, LoadedCatalog)

\* the lowest-numbered stage whose predicate matches, for every utterance of
\* the requests and either catalog
LowestStageOf ==
  [u \in {trim(r.body.message) : r \in Requests} |->
     [c \in Catalogs |-> SetMin({n \in 1..7 : StageMatchesFor(n, u, c)})]]

LowestMatchingStage == LowestStageOf[Utterance][LoadedCatalog]

ActionsOfStage(n) ==
  CASE n = 1 -> {NoAction}
    [] n = 2 -> {NoAction, "ticket_created"}
    [] n = 3 -> {"department_info", "ticket_offer"}
    [] n = 4 -> {NoAction, "ticket_offer"}
    [] n = 5 -> {NoAction, "ticket_status"}
    [] n = 6 -> {"ticket_offer"}
    [] n = 7 -> {NoAction}

\* C1: every request that passed validation is handled by the
\* lowest-numbered stage whose predicate matches; the response carries only
\* what that stage produces, and no ticket is saved outside stage 2, no
\* ticket is read outside stage 5 and no completion call is made outside
\* stage 7.
C1_StagePriority ==
  Answered =>
    /\ obs.stage = LowestMatchingStage
    /\ obs.stage # 2 => obs.saved = 0
    /\ obs.stage # 5 => obs.read = <<>>
    /\ obs.stage # 7 => obs.calls = <<>>
    /\ Succeeded =>
         /\ Data.action \in ActionsOfStage(obs.stage)
         /\ obs.stage # 2 => Data.ticket = Null
         /\ obs.stage # 5 => Data.tickets = Null
         /\ obs.stage \notin {3, 4, 6} => Data.conversationContext = Undefined

\* an FAQ hit answered a message that is also a status inquiry, and no
\* ticket was read
C1_Witness ==
  /\ Answered
  /\ obs.stage = 4
  /\ StageMatches(5)
  /\ Data.action = NoAction
  /\ obs.read = <<>>

\* C2: a step of the system leaves both catalogs as they are and leaves the
\* ticket store as it is or appends exactly one ticket to it: tickets are
\* never changed or removed, and never more than one is created.
C2_OneTicketOnlyWrite ==
  [][/\ faqData' = faqData
     /\ departmentData' = departmentData
     /\ \/ tickets' = tickets
        \/ /\ Len(tickets') = Len(tickets) + 1
           /\ SubSeq(tickets', 1, Len(tickets)) = tickets]_vars

\* a confirmation saved its ticket next to an earlier one, with the catalogs
\* loaded
C2_Witness ==
  /\ Answered
  /\ obs.saved = 1
  /\ Len(tickets) = 2
  /\ faqData.faqs # <<>>
  /\ departmentData.departments # <<>>

\* C3: a request whose trimmed, case-folded utterance is not in the
\* affirmation set leaves the ticket store unchanged, whatever context it
\* carries.
C3_OnlyOnConfirmation ==
  [][(/\ phase = "idle"
      /\ phase' = "done"
      /\ ~InAffirmationSet(trim(toLowerCase(trim(req'.body.message)))))
     => tickets' = tickets]_vars

\* stage 6 answered a request that carried an offer context with an offer
\* and saved nothing
C3_Witness ==
  /\ Answered
  /\ obs.stage = 6
  /\ hasOriginalMessage(req.body.conversationContext)
  /\ Data.action = "ticket_offer"
  /\ obs.saved = 0

\* C4: a request whose utterance starts with a greeting prefix is answered
\* by stage 1 with the canned greeting, action null, no ticket, no tickets
\* and no conversationContext, and saves nothing.
C4_GreetingTerminal ==
  (Answered /\ StartsWithGreeting(FoldedUtterance)) =>
    /\ Succeeded
    /\ obs.stage = 1
    /\ Data.text \in {getGreetingResponse(hour) : hour \in Hours}
    /\ Data.action = NoAction
    /\ Data.ticket = Null
    /\ Data.tickets = Null
    /\ Data.conversationContext = Undefined
    /\ obs.saved = 0

\* a greeting that also names a request and carries an offer context
C4_Witness ==
  /\ Answered
  /\ Utterance = "Hello, I need a transcript"
  /\ StageMatches(6)
  /\ hasOriginalMessage(req.body.conversationContext)
  /\ Data.action = NoAction

\* the ticket the current invocation saved
SavedTicket == tickets[Len(tickets)]

\* the fields createTicket stores for ticket content taken from source
\* under category: the title is the first 100 characters, the description
\* the whole text, each padded up to the minimum length of the store
ContentOf(source, category) ==
  [title |-> IF Len(substring0(source, 100)) < 5
             THEN "Request from chatbot: " \o substring0(source, 100)
             ELSE substring0(source, 100),
   description |-> IF Len(source) < 10 THEN source \o " (Created via chatbot)"
                   ELSE substring0(source, 5000),
   category |-> category,
   priority |-> extractPriority(source),
   requestDetails |-> extractRequestDetails(source, category)]

TicketContent(t) ==
  [title |-> t.title, description |-> t.description, category |-> t.category,
   priority |-> t.priority, requestDetails |-> t.requestDetails]

\* C5: a ticket saved by a confirmation that carries
\* conversationContext.originalMessage has its title, description, priority
\* and requestDetails taken from originalMessage, and the context's category
\* if supplied, else the category detected from originalMessage; without
\* originalMessage every field is taken from the utterance.  The context
\* {originalMessage: "I need an OTR, 2 copies, purpose: job application",
\* category: "OTR Request"} gives numberOfCopies 2 and purpose
\* "job application".
C5_ContentFromOriginalMessage ==
  (Answered /\ obs.stage = 2 /\ obs.saved = 1) =>
    LET context == req.body.conversationContext
        original == context.originalMessage.str
    IN /\ hasOriginalMessage(context) =>
            TicketContent(SavedTicket) =
              ContentOf(original,
                        IF Truthy(context.category) THEN context.category.str
                        ELSE detectTicketCategory(original))
       /\ ~hasOriginalMessage(context) =>
            TicketContent(SavedTicket) =
              ContentOf(Utterance, detectTicketCategory(Utterance))
       /\ context = OtrContext =>
            /\ SavedTicket.requestDetails.numberOfCopies = Num(2)
            /\ SavedTicket.requestDetails.purpose = Str("job application")

\* "yes" confirmed an offer whose context names a category other than the
\* one detected from its originalMessage, and the ticket was created
C5_Witness ==
  /\ Answered
  /\ Utterance = "yes"
  /\ hasOriginalMessage(req.body.conversationContext)
  /\ Truthy(req.body.conversationContext.category)
  /\ req.body.conversationContext.category.str
       # detectTicketCategory(req.body.conversationContext.originalMessage.str)
  /\ Data.action = "ticket_created"
  /\ SavedTicket.description = OtrMessage

\* C6: a request that passed validation is answered with a failure status
\* only when a storage or network call of the invocation raised an error.
C6_FailsOnlyDownstream ==
  Answered => (res.status = 200 \/ obs.failed)

\* C7: when createTicket fails in the confirmation stage, with or without
\* context, the handler answers success with the apology, action null and
\* ticket null.
C7_CreationFailureRecovered ==
  (Answered /\ obs.stage = 2 /\ obs.failed) =>
    /\ Succeeded
    /\ Data.text = CreateFailText
    /\ Data.action = NoAction
    /\ Data.ticket = Null

\* createTicket failed for a confirmation that carried an offer context
C7_Witness ==
  /\ Answered
  /\ obs.stage = 2
  /\ obs.failed
  /\ hasOriginalMessage(req.body.conversationContext)
  /\ res.status = 200

\* C8: outside development mode a 500 response carries the generic message
\* and no text of the error that was caught.
C8_GenericFailureMessage ==
  (Answered /\ res.status = 500 /\ obs.NODE_ENV # "development") =>
    /\ res.body.error = Undefined
    /\ res.body.message = "Error processing message"
    /\ ~includes(res.body.message, obs.error)

\* C9: the completion service is called at most once per invocation, and
\* only when no stage 1 to 6 matches and a key is configured; without a key
\* the static message is returned and no call is made, and after a failed
\* call the static apology is returned; both are success envelopes with
\* action null.
C9_CompletionFallback ==
  Answered =>
    /\ Len(obs.calls) <= 1
    /\ obs.calls # <<>> =>
         /\ LowestMatchingStage = 7
         /\ obs.OPENAI_API_KEY \notin {"", Unread}
    /\ (obs.stage = 7 /\ obs.OPENAI_API_KEY = "") =>
         /\ obs.calls = <<>>
         /\ Succeeded
         /\ Data.text = NoKeyText
         /\ Data.action = NoAction
    /\ (obs.stage = 7 /\ obs.failed) =>
         /\ Len(obs.calls) = 1
         /\ Succeeded
         /\ Data.text = GptFailText
         /\ Data.action = NoAction

\* the one completion call of a fallback failed
C9_Witness ==
  /\ Answered
  /\ obs.stage = 7
  /\ obs.OPENAI_API_KEY = "sk-test"
  /\ obs.failed
  /\ Len(obs.calls) = 1

\* the tickets of the store the caller created
OwnTickets == SelectSeq(tickets, LAMBDA t : t.createdBy = req.user)

\* C10: a status inquiry reads only tickets the authenticated caller
\* created, and its response is the one the same inquiry gets from a store
\* that holds the caller's tickets alone, whatever ticket number the
\* utterance names and whatever userId the body carries.
C10_OwnTicketsOnly ==
  (Answered /\ obs.stage = 5) =>
    /\ \A i \in DOMAIN obs.read : obs.read[i].createdBy = req.user
    /\ Data.tickets # Null =>
         \A i \in DOMAIN Data.tickets.items :
           tickets[Data.tickets.items[i].id].createdBy = req.user
    /\ Data = statusInquiry(OwnTickets, Utterance, req.user, ~obs.failed).response

\* the second user asked for the first user's ticket by its number, with
\* the first user's id in the userId field, and got nothing
C10_Witness ==
  /\ Answered
  /\ obs.stage = 5
  /\ req.user = User2
  /\ req.body.userId = Str(User1)
  /\ \E i \in DOMAIN tickets :
       /\ tickets[i].createdBy = User1
       /\ Str(tickets[i].ticketNumber) = extractTicketNumber(Utterance)
  /\ ~obs.failed
  /\ Data.action = NoAction
  /\ Data.tickets = Null

\* the request-intent cues of stage 3
RequestCues ==
  {"request", "need", "want", "apply", "create", "submit", "help with", "inquiry"}

HasRequestCue == \E cue \in RequestCues : includes(FoldedUtterance, cue)

\* the response offers a ticket for the utterance
OffersTicket ==
  /\ Data.action = "ticket_offer"
  /\ Data.conversationContext =
       [originalMessage |-> Utterance, category |-> detectTicketCategory(Utterance)]

C12_FaqOfferAsStage3 ==
  (Answered /\ obs.stage = 4) => (OffersTicket <=> HasRequestCue)

\* the number of places of s where k occurs
Occurrences(s, k) == Cardinality({i \in 1..Len(s) : MatchAt(s, i, k)})

\* the ticket number the utterance names, or Null
NamedNumber == extractTicketNumber(Utterance)

\* the number of tickets the inquiry of the utterance is answered with
ReturnedCount ==
  LET matching == SelectSeq(OwnTickets,
                            LAMBDA t : Truthy(NamedNumber) => t.ticketNumber = NamedNumber.str)
  IN Min(Len(matching), 10)

\* the i-th newest ticket of the caller
Newest(i) == OwnTickets[Len(OwnTickets) - i + 1]

C14_StatusShapes ==
  (Answered /\ obs.stage = 5) =>
    /\ Succeeded
    /\ obs.failed => Data.action = NoAction /\ Data.tickets = Null
    /\ ~obs.failed =>
         /\ Data.action = "ticket_status" <=> ReturnedCount >= 1
         /\ Data.tickets # Null <=> ReturnedCount >= 1
         /\ Data.action \in {NoAction, "ticket_status"}
         /\ (ReturnedCount = 0 /\ Truthy(NamedNumber)) =>
              /\ NamedNumber.str = toUpperCase(NamedNumber.str)
              /\ includes(Data.text, "number #" \o NamedNumber.str \o " in your account")
         /\ Utterance = "check ticket TICKET-20240101-ABC" =>
              /\ Data.action = NoAction
              /\ includes(Data.text, "couldn't find")
              /\ includes(Data.text, "#TICKET-20240101-ABC ")
         /\ ReturnedCount >= 1 =>
              /\ Len(Data.tickets.items) = ReturnedCount
              /\ MatchAt(Data.text, 1, "Here's the status of your ticket:")
                   <=> (Truthy(NamedNumber) /\ ReturnedCount = 1)
              /\ MatchAt(Data.text, 1, "I found ")
                   <=> ~(Truthy(NamedNumber) /\ ReturnedCount = 1)

\* a caller who owns tickets named, in lower case, a number none of them
\* has, and was told that number in upper case
C14_Witness ==
  /\ Answered
  /\ obs.stage = 5
  /\ Utterance = "view ticket ticket-20240101-abc please"
  /\ Len(OwnTickets) >= 1
  /\ Data.text = NotFoundText("TICKET-20240101-ABC")
  /\ Data.action = NoAction
  /\ Data.tickets = Null

\* C15: when none of stages 1 to 5 matches and the utterance contains one of
\* request, need, want, apply, create, submit, help with, assistance, issue,
\* problem, the response has action ticket_offer and conversationContext
\* {originalMessage: the utterance, category: detectTicketCategory(utterance)},
\* no ticket is created and no completion call is made.
C15_NeedOffer ==
  Answered =>
    /\ LowestMatchingStage = 6 => obs.stage = 6
    /\ obs.stage = 6 =>
         /\ \A n \in 1..5 : ~StageMatches(n)
         /\ \E cue \in {"request", "need", "want", "apply", "create", "submit",
                        "help with", "assistance", "issue", "problem"} :
              includes(FoldedUtterance, cue)
         /\ Succeeded
         /\ OffersTicket
         /\ Data.ticket = Null
         /\ obs.saved = 0
         /\ obs.calls = <<>>

\* a request naming a problem was offered a ticket of a category other than
\* the default one
C15_Witness ==
  /\ Answered
  /\ obs.stage = 6
  /\ includes(FoldedUtterance, "problem")
  /\ OffersTicket
  /\ Data.conversationContext.category # "General Inquiry"
  /\ Data.text = NeedOfferText

\* a call of the named function has returned
Returned(call) == phase = "done" /\ req.call = call

\* a keyword of the i-th category of the mapping occurs in the message,
\* whatever the case of either
KeywordOccurs(i, message) ==
  \E k \in DOMAIN ticketKeywords[i].keywords :
    includes(toLowerCase(message), toLowerCase(ticketKeywords[i].keywords[k]))

\* C16: detectTicketCategory returns the first category, in the declared
\* order of the keyword mapping, that has a keyword occurring as a
\* case-insensitive substring of the message, however many keywords of later
\* categories occur, and General Inquiry when no keyword occurs.
C16_FirstCategoryWins ==
  Returned("detectTicketCategory") =>
    LET with == {i \in DOMAIN ticketKeywords : KeywordOccurs(i, req.message)}
    IN /\ with # {} =>
            \E i \in with : /\ res.value = ticketKeywords[i].category
                            /\ \A j \in with : i <= j
       /\ with = {} => res.value = "General Inquiry"
       /\ req.message = "tuition payment fee please Transcript" =>
            res.value = "OTR Request"
       /\ req.message = "dean please dean" => res.value = "General Inquiry"

\* one keyword of the first category won over three of a later one
C16_Witness ==
  /\ Returned("detectTicketCategory")
  /\ req.message = "tuition payment fee please Transcript"
  /\ KeywordOccurs(1, req.message)
  /\ KeywordOccurs(8, req.message)
  /\ res.value = ticketKeywords[1].category

\* C17: extractTicketInfo sets priority Urgent when the message contains
\* urgent, asap or immediately, even if it also contains important or soon,
\* else High when it contains important or soon, else Normal; a text with
\* urgent and no category keyword gets category General Inquiry and
\* priority Urgent.
C17_PriorityCues ==
  Returned("extractTicketInfo") =>
    LET lower == toLowerCase(req.message)
        urgent == \E cue \in {"urgent", "asap", "immediately"} : includes(lower, cue)
        high == \E cue \in {"important", "soon"} : includes(lower, cue)
    IN /\ urgent => res.value.priority = "Urgent"
       /\ (~urgent /\ high) => res.value.priority = "High"
       /\ (~urgent /\ ~high) => res.value.priority = "Normal"
       /\ (includes(lower, "urgent")
           /\ \A i \in DOMAIN ticketKeywords : ~KeywordOccurs(i, req.message)) =>
            /\ res.value.category = "General Inquiry"
            /\ res.value.priority = "Urgent"

\* a message with a cue of High before an upper-case cue of Urgent, and no
\* category keyword
C17_Witness ==
  /\ Returned("extractTicketInfo")
  /\ req.message = "important please URGENT"
  /\ res.value.priority = "Urgent"
  /\ res.value.category = "General Inquiry"

\* C18: for every ticketInfo passed to createTicket, the record handed to
\* the persistence layer has a title of 5 to 200 characters and a
\* description of 10 to 5000 characters.
C18_LengthsWithinLimits ==
  /\ \A i \in DOMAIN tickets :
       /\ Len(tickets[i].title) \in 5..200
       /\ Len(tickets[i].description) \in 10..5000
  /\ Returned("createTicket") =>
       /\ Len(ticketData(req.ticketInfo, req.userId).title) \in 5..200
       /\ Len(ticketData(req.ticketInfo, req.userId).description) \in 10..5000

\* a ticketInfo with an empty title and a description over the maximum was
\* saved
C18_Witness ==
  /\ Returned("createTicket")
  /\ req.ticketInfo.title = ""
  /\ Len(req.ticketInfo.description) > 5000
  /\ ~res.threw
  /\ res.value.title = "Chatbot Request"
  /\ Len(tickets[Len(tickets)].description) = 5000

\* C19: every ticket the router creates has status Pending and createdBy
\* equal to the authenticated caller of the invocation, whatever the userId
\* field of the body and the content of conversationContext.
C19_CreatorAndStatus ==
  /\ \A i \in DOMAIN tickets :
       tickets[i].status = "Pending" /\ tickets[i].createdBy \in Users
  /\ (phase = "done" /\ obs.saved > 0) =>
       /\ SavedTicket.createdBy = req.user
       /\ SavedTicket.status = "Pending"

\* a ticket was created for a caller whose body named another user, in the
\* userId field and in createdBy and status fields of the context
C19_Witness ==
  /\ phase = "done"
  /\ obs.saved = 1
  /\ Len(tickets) = 2
  /\ req.user = User2
  /\ req.body.userId = Str(User1)
  /\ req.body.conversationContext = ForgedContext
  /\ SavedTicket.createdBy = User2
  /\ tickets[1].createdBy = User1
  /\ tickets[1].status = "Pending"

\* C20: a request whose message is not 1 to 1000 characters after trimming
\* is rejected with a 400 validation envelope before the router runs: no
\* stage is evaluated, no ticket is created or queried and no completion
\* call is made.
C20_LengthValidated ==
  phase = "done" =>
    /\ Len(Utterance) \notin 1..1000 =>
         /\ res.status = 400
         /\ res.body.success = FALSE
         /\ res.body.message = "Validation failed"
         /\ "Message must be between 1 and 1000 characters" \in Range(res.body.errors)
         /\ obs = NoObs
    /\ (Len(Utterance) \in 1..1000 /\ req.body.userId \in {Undefined, Str(User1)}) =>
         res.status # 400 /\ obs.stage \in 1..7
    /\ res.status = 400 => obs.stage = 0

\* a message of 1001 characters was rejected while the collection held
\* tickets
C20_Witness ==
  /\ phase = "done"
  /\ Len(Utterance) = 1001
  /\ res.status = 400
  /\ obs = NoObs
  /\ Len(tickets) >= 1

\* C21: an invocation with no ticket side effect is a function of its input:
\* the response to a greeting is the same at whatever time of day the
\* request arrives, so two invocations with identical input give identical
\* responses.
C21_SameResponseAtAnyTime ==
  (Answered /\ obs.stage = 1) =>
    \A hour \in Hours : Data.text = getGreetingResponse(hour)

C23_AdminOnly ==
  [][(phase = "idle" /\ phase' = "done") =>
       IF roleOf(req'.user) = "admin"
       THEN res'.status # 403
       ELSE /\ res'.status = 403
            /\ res'.body.success = FALSE
            /\ tickets' = tickets
            /\ comments' = comments
            /\ obs'.calls = <<>>
            /\ obs'.read = <<>>]_vars

\* an ordinary user sent a valid status update for an existing ticket
C23_Witness ==
  /\ phase = "done"
  /\ req.route = "PUT /tickets/:id/status"
  /\ req.user = User1
  /\ findById(tickets, req.params.id) # Null
  /\ statusErrors(req.body) = <<>>
  /\ req.body.status.str # findById(tickets, req.params.id).status
  /\ res.status = 403

\* an invocation of PUT /tickets/:id/status has just answered
StatusUpdateAnswered ==
  phase = "idle" /\ phase' = "done" /\ req'.route = "PUT /tickets/:id/status"

\* the comments the invocation added
AddedComments == SubSeq(comments', Len(comments) + 1, Len(comments'))

\* C29: the admin status update is all-or-nothing: when it answers with an
\* error (400, 404 or 500) the ticket's status is unchanged and no remark or
\* system comment has been added for that request
C29_AllOrNothing ==
  [][(StatusUpdateAnswered /\ res'.status \in {400, 404, 500}) =>
       (tickets' = tickets /\ comments' = comments)]_vars

\* C30: every successful admin status update sets the ticket's status to the
\* requested value, one of Pending, In Review and Completed, leaves the other
\* tickets alone, and adds exactly one system note recording the old and the
\* new status, preceded by exactly one public remark if and only if non-blank
\* remarks were supplied; the remark is saved before the ticket and the
\* system note after it
C30_StatusUpdate ==
  [][(StatusUpdateAnswered /\ res'.status = 200) =>
       LET id == req'.params.id
           status == req'.body.status.str
           remarks == IF req'.body.remarks.type = "string"
                      THEN trim(req'.body.remarks.str) ELSE ""
           note == AddedComments[Len(AddedComments)]
       IN /\ status \in {"Pending", "In Review", "Completed"}
          /\ tickets'[id].status = status
          /\ Len(tickets') = Len(tickets)
          /\ \A i \in 1..Len(tickets) : i # id => tickets'[i] = tickets[i]
          /\ SubSeq(comments', 1, Len(comments)) = comments
          /\ Len(AddedComments) = (IF remarks # "" THEN 2 ELSE 1)
          /\ note.ticket = id /\ note.isSystemNote /\ note.author = req'.user
          /\ note.content = "Status changed from \"" \o tickets[id].status
                              \o "\" to \"" \o status \o "\" by admin"
          /\ remarks # "" =>
               /\ AddedComments[1].ticket = id
               /\ AddedComments[1].content = remarks
               /\ ~AddedComments[1].isInternal
               /\ ~AddedComments[1].isSystemNote
          /\ obs'.calls = <<"Ticket.findById">>
                          \o (IF remarks # "" THEN <<"comment.save">> ELSE <<>>)
                          \o <<"ticket.save", "statusComment.save", "ticket.populate">>]_vars

\* a completed ticket was set back to Pending with a remark
C30_Witness ==
  /\ phase = "done" /\ req.route = "PUT /tickets/:id/status" /\ res.status = 200
  /\ req.body = [status |-> Str("Pending"), remarks |-> Str(" Please bring your ID ")]
  /\ Len(comments) = 2
  /\ comments[1].content = "Please bring your ID"
  /\ comments[2].content = "Status changed from \"Completed\" to \"Pending\" by admin"
  /\ tickets[req.params.id].status = "Pending"

\* the response on display offers a ticket and the next request confirms it
\* with the context of that response
OfferConfirmed ==
  /\ phase = "done" /\ res.status = 200 /\ Data.action = "ticket_offer"
  /\ phase' = "done" /\ req'.user = req.user
  /\ req'.body.conversationContext = Echo(Data.conversationContext)
  /\ res'.status = 200 /\ res'.body.data.action = "ticket_created"

\* the second user's confirmation created a ticket
UnofferedCreated ==
  /\ phase = "idle" /\ phase' = "done" /\ req'.user = User2
  /\ res'.status = 200 /\ res'.body.data.action = "ticket_created"

\* C24 as stated: a confirmed offer creates a ticket whose description is
\* the utterance that triggered the offer and whose category is the category
\* detected for it, and the confirmation of a user who was never offered a
\* ticket creates one as well
C24_RoundTrip_asStated ==
  [][/\ OfferConfirmed =>
          /\ Len(tickets') = Len(tickets) + 1
          /\ tickets'[Len(tickets')].description = Utterance
          /\ tickets'[Len(tickets')].category = detectTicketCategory(Utterance)
     /\ UnofferedCreated =>
          /\ Len(tickets') = Len(tickets) + 1
          /\ tickets'[Len(tickets')].createdBy = User2]_vars

\* C24, amended: as stated, except that the description of the ticket is
\* the triggering utterance followed by " (Created via chatbot)" when that
\* utterance has fewer than 10 characters
C24_RoundTrip ==
  [][/\ OfferConfirmed =>
          /\ Len(tickets') = Len(tickets) + 1
          /\ tickets'[Len(tickets')].description =
               (IF Len(Utterance) < 10 THEN Utterance \o " (Created via chatbot)"
                ELSE Utterance)
          /\ tickets'[Len(tickets')].category = detectTicketCategory(Utterance)
          /\ tickets'[Len(tickets')].createdBy = req.user
     /\ UnofferedCreated =>
          /\ Len(tickets') = Len(tickets) + 1
          /\ tickets'[Len(tickets')].createdBy = User2
          /\ tickets'[Len(tickets')].description = OtrMessage]_vars

\* the first user confirmed the offer made for a short utterance, and the
\* second user holds a ticket without ever having been offered one
C24_Witness ==
  /\ phase = "done" /\ res.status = 200 /\ Data.action = "ticket_created"
  /\ req.user = User1
  /\ req.body.conversationContext = Echo(OfferContext("need"))
  /\ Len(tickets) = 2
  /\ tickets[1].createdBy = User2
  /\ tickets[2].description = "need (Created via chatbot)"

\* C25: the department lookup returns a department only when the utterance
\* contains a location cue; it then returns the first department in catalog
\* order one of whose services is a case-insensitive substring of the
\* utterance, even if a later department matches more services, and returns
\* none when the cue is missing, the catalog is empty or no service matches
C25_FirstDepartmentWins ==
  Returned("findDepartmentByService") =>
    LET lower == toLowerCase(req.message)
        catalog == req.departments
        cue == \E word \in {"where", "location", "find", "get", "obtain", "available",
                            "can i get", "how to get"} : includes(lower, word)
        Offers(i) == /\ catalog[i].services.type = "array"
                     /\ \E k \in DOMAIN catalog[i].services.items :
                          includes(lower, toLowerCase(catalog[i].services.items[k]))
    IN IF cue /\ \E i \in DOMAIN catalog : Offers(i)
       THEN \E i \in DOMAIN catalog :
              /\ Offers(i)
              /\ \A j \in 1..(i - 1) : ~Offers(j)
              /\ res.value = catalog[i]
       ELSE res.value = Null

\* the first department matches one service of the utterance and a later one
\* matches three
C25_Witness ==
  /\ Returned("findDepartmentByService")
  /\ req.message = "where can I get COE clearance tuition payment"
  /\ req.departments = SampleDepartments
  /\ res.value.name = "Registrar's Office"

\* status inquiries that consist only of a trigger phrase
TriggerPhrases == {"my tickets", "ticket status", "check ticket status"}

\* C26: a status inquiry that names no ticket identifier, such as one that
\* consists only of a trigger phrase, is not filtered by ticket number:
\* extractTicketNumber returns null for it and the query returns the
\* caller's most recent tickets
C26_TriggerPhraseUnfiltered ==
  (Answered /\ Succeeded /\ obs.stage = 5 /\ FoldedUtterance \in TriggerPhrases) =>
    /\ extractTicketNumber(Utterance) = Null
    /\ ~obs.failed =>
         /\ Len(obs.read) = Min(Len(OwnTickets), 10)
         /\ \A i \in 1..Len(obs.read) : obs.read[i] = Newest(i)

\* C27: whenever the confirmation stage answers with the creation-failure
\* apology (action null, ticket null), no ticket was persisted by that
\* invocation
C27_ApologyMeansNothingSaved ==
  (Answered /\ Succeeded /\ obs.stage = 2 /\ Data.text = CreateFailText) =>
    /\ Data.action = NoAction
    /\ Data.ticket = Null
    /\ obs.saved = 0

=============================================================================
